---- MODULE Spec2Model ----
(***************************************************************************)
(* Budget form of lomCOTACAO (src/src/pages/BudgetFormPage.tsx): the React *)
(* component state of the two-collection budget form, its line and tier    *)
(* mutators, the pricing effect, the lead-time projection and the save     *)
(* path against the backing store.                                         *)
(*                                                                         *)
(* Conventions.                                                            *)
(*  - An optional value (lead_time_days?, project_start_date?) is the      *)
(*    empty sequence << >> when undefined/empty and <<v>> when set.        *)
(*  - An absent id is NoId (falsy in `if (item.id)`); ids are numbers.     *)
(*  - An image reference is [file, save]: the public URL of the object     *)
(*    that save number `save` uploaded for file `file` (save 0: earlier).  *)
(*  - line_cost, quantity, unit_price and baseCost are whole numbers; the  *)
(*    derived tier fields marginAmount, totalCost and clientPrice are held *)
(*    in hundredths, so that the code's division by 100 is exact:          *)
(*    marginAmount (hundredths) = baseCost * marginPercentage.             *)
(***************************************************************************)
EXTENDS Integers, Sequences, FiniteSets, TLC

\* ---------------------------------------------------------------- bounds
MaxItems == 2
MaxExtras == 1
MaxSubmits == 1
MaxOverlap == 2
MaxAttempts == 2
MaxUploads == 1

\* hundredths per unit: the divisor of recalcOption
Hundred == 100
\* getTotalLeadTime's fallback
FallbackLeadTime == 42

\* ids are positive numbers; an absent id is 0
NoId == 0

VARIABLES
  id,               \* useParams().id: NoId on the create route
  loading,          \* useState(true)
  budget,           \* useState<Budget>
  items,            \* useState<BudgetItem[]> (materials)
  extras,           \* useState<BudgetItem[]>
  pricingOptions,   \* useState<PricingOption[]>
  itemsEffect,      \* TRUE while the useEffect([items]) of the last render has not run yet
  uploadedImages,   \* useState<File[]>: the files staged for upload
  imageUrls,        \* useState<string[]>: the previews shown
  saves,            \* the handleSubmit invocations, in the order they were started
  navigated,        \* navigate('/budgets') was called: the form is unmounted
  db_storage,       \* bucket budget-images: the objects uploaded
  db_seq,           \* the ids the store has handed out so far, per table
  tz,               \* the time zone of the runtime the page runs in
  today,            \* the UTC calendar day of `new Date()`
  dateCall,         \* a call of calculateEstimatedEndDate: its arguments and its result
  toasts,           \* react-hot-toast: how many times each notification was shown
  crashed,          \* an error thrown while rendering has unmounted the page
  db_budgets,       \* table budgets: the rows, by id
  db_items          \* table budget_items: the rows, in the order the store returns them

formVars == <<id, loading, budget, items, extras, pricingOptions, itemsEffect>>
imageVars == <<uploadedImages, imageUrls>>
saveVars == <<saves, navigated>>
storeVars == <<db_budgets, db_items, db_storage, db_seq>>
uiVars == <<toasts, crashed>>
envVars == <<tz, today, dateCall>>
vars == <<formVars, imageVars, saveVars, storeVars, uiVars, envVars>>

\* ------------------------------------------------------------ pure helpers
RECURSIVE SumLineCost(_)
SumLineCost(lines) ==
  IF lines = << >> THEN 0 ELSE lines[1].line_cost + SumLineCost(Tail(lines))

\* items.reduce((sum, item) => sum + item.line_cost, 0)
baseCostOf(its) == SumLineCost(its)

\* x || 0 on an optional number
OrZero(x) == IF x = << >> THEN 0 ELSE x[1]

RemoveAt_last(s, index) == SubSeq(s, 1, Len(s) - 1)

\* s.filter((_, i) => i !== index)
RemoveAt(s, index) ==
  [k \in 1..(Len(s) - 1) |-> IF k < index THEN s[k] ELSE s[k + 1]]

\* the blank line addItem / addExtra append
BlankLine(type) ==
  [id |-> NoId, description |-> "", quantity |-> 1, unit_price |-> 0,
   line_cost |-> 0, type |-> type, lead_time_days |-> << >>]

recalcOption_noTotal(option, baseCost) ==
  [option EXCEPT !.marginAmount = baseCost * option.marginPercentage,
                 !.totalCost = baseCost * Hundred,
                 !.clientPrice = baseCost * Hundred]

recalcOption_drift(option, baseCost) ==
  LET marginAmount == baseCost * option.marginPercentage
      totalCost == option.totalCost + marginAmount
  IN [option EXCEPT !.marginAmount = marginAmount,
                    !.totalCost = totalCost,
                    !.clientPrice = totalCost]

recalcOption_byQuantity(option, baseCost) ==
  LET marginAmount == baseCost * option.quantity * option.marginPercentage
      totalCost == baseCost * option.quantity * Hundred + marginAmount
  IN [option EXCEPT !.marginAmount = marginAmount,
                    !.totalCost = totalCost,
                    !.clientPrice = totalCost]

recalcOption(option, baseCost) ==
  LET marginAmount == baseCost * option.marginPercentage
      totalCost == baseCost * Hundred + marginAmount
      clientPrice == totalCost
  IN [option EXCEPT !.marginAmount = marginAmount,
                    !.totalCost = totalCost,
                    !.clientPrice = clientPrice]

InitialPricingOptions ==
  << [id |-> 1, quantity |-> 1, marginPercentage |-> 10, marginAmount |-> 0, totalCost |-> 0, clientPrice |-> 0],
     [id |-> 2, quantity |-> 1, marginPercentage |-> 15, marginAmount |-> 0, totalCost |-> 0, clientPrice |-> 0],
     [id |-> 3, quantity |-> 1, marginPercentage |-> 20, marginAmount |-> 0, totalCost |-> 0, clientPrice |-> 0] >>

InitialBudget ==
  [id |-> NoId, project_start_date |-> << >>, estimated_end_date |-> << >>,
   images |-> << >>]

\* --------------------------------------------------------- line mutators
updateLine_noRecalc(lines, index, field, value) ==
  LET edited == [lines[index] EXCEPT ![field] = value]
      recomputed ==
        IF field = "quantity"
        THEN [edited EXCEPT !.line_cost = edited.quantity * edited.unit_price]
        ELSE edited
  IN [lines EXCEPT ![index] = recomputed]

\* the common body of updateItem and updateExtra
updateLine(lines, index, field, value) ==
  LET edited == [lines[index] EXCEPT ![field] = value]
      recomputed ==
        IF field = "quantity" \/ field = "unit_price"
        THEN [edited EXCEPT !.line_cost = edited.quantity * edited.unit_price]
        ELSE edited
  IN [lines EXCEPT ![index] = recomputed]

\* the form is rendered and the effects of the last render have run: React
\* flushes pending effects before it dispatches the next user event
Ready == ~loading /\ ~itemsEffect /\ ~navigated /\ ~crashed

addItem ==
  /\ Ready
  /\ Len(items) < MaxItems
  /\ items' = Append(items, BlankLine("material"))
  /\ itemsEffect' = TRUE
  /\ UNCHANGED <<id, loading, budget, extras, pricingOptions, storeVars, uiVars, envVars, imageVars, saveVars>>

updateItem(index, field, value) ==
  /\ Ready
  /\ index \in 1..Len(items)
  /\ items' = updateLine(items, index, field, value)
  /\ itemsEffect' = TRUE
  /\ UNCHANGED <<id, loading, budget, extras, pricingOptions, storeVars, uiVars, envVars, imageVars, saveVars>>

removeItem(index) ==
  /\ Ready
  /\ index \in 1..Len(items)
  /\ items' = RemoveAt(items, index)
  /\ itemsEffect' = TRUE
  /\ UNCHANGED <<id, loading, budget, extras, pricingOptions, storeVars, uiVars, envVars, imageVars, saveVars>>

addExtra ==
  /\ Ready
  /\ Len(extras) < MaxExtras
  /\ extras' = Append(extras, BlankLine("extra"))
  /\ UNCHANGED <<id, loading, budget, items, pricingOptions, itemsEffect, storeVars, uiVars, envVars, imageVars, saveVars>>

updateExtra_recalc(index, field, value) ==
  /\ Ready
  /\ index \in 1..Len(extras)
  /\ extras' = updateLine(extras, index, field, value)
  /\ pricingOptions' =
       [k \in 1..Len(pricingOptions) |->
          recalcOption(pricingOptions[k], baseCostOf(items) + baseCostOf(extras'))]
  /\ UNCHANGED <<id, loading, budget, items, itemsEffect, storeVars, uiVars, envVars, imageVars, saveVars>>

updateExtra(index, field, value) ==
  /\ Ready
  /\ index \in 1..Len(extras)
  /\ extras' = updateLine(extras, index, field, value)
  /\ UNCHANGED <<id, loading, budget, items, pricingOptions, itemsEffect, storeVars, uiVars, envVars, imageVars, saveVars>>

removeExtra(index) ==
  /\ Ready
  /\ index \in 1..Len(extras)
  /\ extras' = RemoveAt(extras, index)
  /\ UNCHANGED <<id, loading, budget, items, pricingOptions, itemsEffect, storeVars, uiVars, envVars, imageVars, saveVars>>

\* useEffect(() => {...}, [items]): runs after the render that follows a
\* change of the items array (and after the first render)
ItemsEffect ==
  /\ itemsEffect
  /\ LET baseCost == baseCostOf(items)
     IN pricingOptions' =
          [k \in 1..Len(pricingOptions) |-> recalcOption(pricingOptions[k], baseCost)]
  /\ itemsEffect' = FALSE
  /\ UNCHANGED <<id, loading, budget, items, extras, storeVars, uiVars, envVars, imageVars, saveVars>>

updatePricingOption_allTiers(index, field, value) ==
  /\ Ready
  /\ index \in 1..Len(pricingOptions)
  /\ pricingOptions' =
       [k \in 1..Len(pricingOptions) |->
          recalcOption([pricingOptions[k] EXCEPT ![field] = value], baseCostOf(items))]
  /\ UNCHANGED <<id, loading, budget, items, extras, itemsEffect, storeVars, uiVars, envVars, imageVars, saveVars>>

updatePricingOption_append(index, field, value) ==
  /\ Ready
  /\ index \in 1..Len(pricingOptions)
  /\ LET edited == [pricingOptions[index] EXCEPT ![field] = value]
         baseCost == baseCostOf(items)
     IN pricingOptions' = Append(pricingOptions, recalcOption(edited, baseCost))
  /\ UNCHANGED <<id, loading, budget, items, extras, itemsEffect, storeVars, uiVars, envVars, imageVars, saveVars>>

updatePricingOption(index, field, value) ==
  /\ Ready
  /\ index \in 1..Len(pricingOptions)
  /\ LET edited == [pricingOptions[index] EXCEPT ![field] = value]
         baseCost == baseCostOf(items)
     IN pricingOptions' = [pricingOptions EXCEPT ![index] = recalcOption(edited, baseCost)]
  /\ UNCHANGED <<id, loading, budget, items, extras, itemsEffect, storeVars, uiVars, envVars, imageVars, saveVars>>


\* ------------------------------------------------------------- calendar
\* Days are numbered from Monday 2025-03-03 (day 0); a date string
\* "YYYY-MM-DD" is its day number. An instant is a number of hours since
\* 2025-03-03T00:00Z. A time zone is its standard UTC offset in hours and,
\* when it has one in the modelled period, the instant from which the offset
\* is one hour more (daylight saving time begins).
HoursPerDay == 24
DaysPerWeek == 7

UTC == [std |-> 0, dst |-> << >>]
\* Europe/Lisbon: WET, summer time from 2025-03-30T01:00Z (day 27)
Lisbon == [std |-> 0, dst |-> <<27 * HoursPerDay + 1>>]
\* America/Bogota: UTC-5 all year
Bogota == [std |-> -5, dst |-> << >>]
TimeZones == {UTC, Lisbon, Bogota}

offsetAt(zone, t) ==
  IF zone.dst # << >> /\ t >= zone.dst[1] THEN zone.std + 1 ELSE zone.std

\* the local wall clock (hours since local 2025-03-03 00:00) of an instant
localOf(zone, t) == t + offsetAt(zone, t)

\* the instant of a local wall clock time; a time skipped by the change to
\* summer time is read with the offset before the change
instantOf(zone, w) ==
  IF zone.dst = << >> THEN w - zone.std
  ELSE IF w - zone.std < zone.dst[1] THEN w - zone.std
  ELSE IF w - (zone.std + 1) >= zone.dst[1] THEN w - (zone.std + 1)
  ELSE w - zone.std

\* new Date("YYYY-MM-DD"): midnight UTC of that day
parseDate(day) == day * HoursPerDay

\* d.setDate(d.getDate() + 1): the next local calendar day, same local time
plusOneLocalDay(zone, t) == instantOf(zone, localOf(zone, t) + HoursPerDay)

\* d.getDay(): the local day of the week, 0 = Sunday ... 6 = Saturday
getDay(zone, t) == ((localOf(zone, t) \div HoursPerDay) + 1) % DaysPerWeek

\* d.toISOString().split('T')[0]: the UTC calendar day
toISODate(t) == t \div HoursPerDay

RECURSIVE advance(_, _, _)
advance(zone, currentDate, remaining) ==
  IF remaining > 0
  THEN LET next == plusOneLocalDay(zone, currentDate)
       IN advance(zone, next,
                  IF getDay(zone, next) # 0 /\ getDay(zone, next) # 6
                  THEN remaining - 1 ELSE remaining)
  ELSE currentDate

calculateEstimatedEndDate(zone, startDate, daysToAdd) ==
  toISODate(advance(zone, parseDate(startDate), daysToAdd))

\* --------------------------------------------------------------- lead time
RECURSIVE SumLeadTime(_)
SumLeadTime(lines) ==
  IF lines = << >> THEN 0
  ELSE OrZero(lines[1].lead_time_days) + SumLeadTime(Tail(lines))

getTotalLeadTime_itemsOnly ==
  LET total == SumLeadTime(items)
  IN IF total > 0 THEN total ELSE FallbackLeadTime

getTotalLeadTime_whenZero ==
  LET total == SumLeadTime(items) + SumLeadTime(extras)
  IN IF total = 0 THEN FallbackLeadTime ELSE total

getTotalLeadTime ==
  LET itemsLeadTime == SumLeadTime(items)
      extrasLeadTime == SumLeadTime(extras)
      total == itemsLeadTime + extrasLeadTime
  IN IF total > 0 THEN total ELSE FallbackLeadTime

\* new Date('') is an Invalid Date: setDate and getDay leave it invalid (the
\* loop still counts down, NaN being neither 0 nor 6) and toISOString throws
\* a RangeError on it
calculateEstimatedEndDateThrows(startDate) == startDate = << >>

editStartDate_staleEnd(date) ==
  /\ Ready
  /\ date # budget.project_start_date
  /\ budget' = [budget EXCEPT !.project_start_date = date]
  /\ UNCHANGED <<id, loading, items, extras, pricingOptions, itemsEffect, storeVars, uiVars, envVars, imageVars, saveVars>>

\* the start date input's onChange: date is e.target.value, << >> when the
\* field was emptied. The updater passed to setBudget calls
\* calculateEstimatedEndDate; when that throws, the render that applies the
\* update fails, nothing catches it and React unmounts the page
editStartDate(date) ==
  /\ Ready
  \* a change event: the field's value is not the one it showed
  /\ date # budget.project_start_date
  /\ IF calculateEstimatedEndDateThrows(date)
     THEN /\ crashed' = TRUE
          /\ UNCHANGED <<budget, toasts>>
     ELSE /\ budget' = [budget EXCEPT
                          !.project_start_date = date,
                          !.estimated_end_date =
                             <<calculateEstimatedEndDate(tz, date[1], getTotalLeadTime)>>]
          /\ UNCHANGED uiVars
  /\ UNCHANGED <<id, loading, items, extras, pricingOptions, itemsEffect, storeVars, envVars, imageVars, saveVars>>

\* the value of the read-only end date field
displayedEndDate ==
  IF budget.project_start_date # << >>
  THEN <<calculateEstimatedEndDate(tz, budget.project_start_date[1], getTotalLeadTime)>>
  ELSE << >>

setStartDateToToday ==
  /\ Ready
  /\ budget' = [budget EXCEPT
                  !.project_start_date = <<today>>,
                  !.estimated_end_date =
                     <<calculateEstimatedEndDate(tz, today, getTotalLeadTime)>>]
  /\ UNCHANGED <<id, loading, items, extras, pricingOptions, itemsEffect, storeVars, uiVars, envVars, imageVars, saveVars>>

\* ------------------------------------------------------------------ load
\* { ...a, ...b }
Spread(a, b) ==
  [f \in (DOMAIN a) \cup (DOMAIN b) |-> IF f \in DOMAIN b THEN b[f] ELSE a[f]]

SelectSeq2_all(s, type) == s

SelectSeq2(s, type) == SelectSeq(s, LAMBDA r : r.type = type)

\* .from('budget_items').select('*').eq('budget_id', budgetId)
ItemsOfBudget(budgetId) == SelectSeq(db_items, LAMBDA r : r.budget_id = budgetId)

Toast(name) == [toasts EXCEPT ![name] = @ + 1]

\* the mount effect on the create route: setLoading(false)
MountNew ==
  /\ id = NoId
  /\ loading
  /\ loading' = FALSE
  /\ UNCHANGED <<id, budget, items, extras, pricingOptions, itemsEffect, storeVars, uiVars, envVars, imageVars, saveVars>>

\* loadBudget(id), both queries answered
loadBudgetOk ==
  /\ id # NoId
  /\ loading
  /\ id \in DOMAIN db_budgets
  /\ LET budgetData == db_budgets[id]
         itemsData == ItemsOfBudget(id)
     IN /\ budget' = budgetData
        /\ items' = SelectSeq2(itemsData, "material")
        /\ extras' = SelectSeq2(itemsData, "extra")
        /\ imageUrls' = budgetData.images
  /\ itemsEffect' = TRUE
  /\ loading' = FALSE
  /\ UNCHANGED <<id, pricingOptions, uploadedImages, storeVars, uiVars, envVars, saveVars>>

\* loadBudget(id), one of the queries rejected
loadBudgetFail ==
  /\ id # NoId
  /\ loading
  /\ toasts' = Toast("loadError")
  /\ loading' = FALSE
  /\ UNCHANGED <<id, budget, items, extras, pricingOptions, itemsEffect, storeVars, envVars, imageVars, saveVars, crashed>>


\* ----------------------------------------------------------------- images
\* URL.createObjectURL(file): the preview of a file that is not uploaded yet
Preview(file) == [file |-> file, save |-> -1]

\* s.filter((_, i) => i !== index), index possibly beyond the end of s
FilterOut(s, index) == IF index \in 1..Len(s) THEN RemoveAt(s, index) ELSE s

\* the file input's onChange: files is the selection, in its order
handleImageUpload(files) ==
  /\ Ready
  /\ uploadedImages' = uploadedImages \o files
  /\ imageUrls' = imageUrls \o [k \in 1..Len(files) |-> Preview(files[k])]
  /\ UNCHANGED <<formVars, saveVars, storeVars, uiVars, envVars>>

\* the remove button of the preview at position index: both lists are
\* filtered with the same index
removeImage(index) ==
  /\ Ready
  /\ index \in 1..Len(imageUrls)
  /\ uploadedImages' = FilterOut(uploadedImages, index)
  /\ imageUrls' = RemoveAt(imageUrls, index)
  /\ UNCHANGED <<formVars, saveVars, storeVars, uiVars, envVars>>

\* ------------------------------------------------------------ handleSubmit
\* One invocation of handleSubmit is a record: the values its closure holds
\* (id, budget, items, extras, pricingOptions, uploadedImages are those of
\* the render in which the submit event was dispatched), its locals, the
\* backend calls it has issued (each with its outcome) and what it has shown.
\* pc is the await the invocation is suspended at.
NewSave ==
  [pc |-> "getUser", user |-> NoId,
   id |-> id, budget |-> budget, items |-> items, extras |-> extras,
   pricingOptions |-> pricingOptions, uploadedImages |-> uploadedImages,
   baseCost |-> 0, uploadedUrls |-> << >>, k |-> 1, newBudget |-> NoId,
   calls |-> << >>, notified |-> << >>, navigated |-> FALSE]

LinesOf(save) == save.items \o save.extras

Call(op, table, key, rows, ok) ==
  [op |-> op, table |-> table, key |-> key, rows |-> rows, ok |-> ok]

Caught_goesOn(save) ==
  [save EXCEPT !.notified = Append(@, "saveError")]

\* catch (error) { toast.error('Erro ao salvar orçamento') }
Caught(save) ==
  [save EXCEPT !.pc = "failed", !.notified = Append(@, "saveError")]

\* toast.success(...); navigate('/budgets')
Succeeded(save) ==
  [save EXCEPT !.pc = "done", !.notified = Append(@, "success"), !.navigated = TRUE]

\* ------------------------------------------------- the row remove buttons
\* The remove button of a row has no type attribute, so it is a submit
\* button of the form: after its onClick the browser goes on to submit the
\* form, unless validation fails (the client select is required) or the
\* button has left the document. Rows are keyed by index, so the button
\* clicked stays in the document unless its row was the last one. valid is
\* the outcome of the form's validation; flushed tells whether the effect of
\* the render that follows setItems has run when the submit event is
\* dispatched, which depends on the React version.
removeItemButton(index, valid, flushed) ==
  /\ Ready
  /\ index \in 1..Len(items)
  /\ items' = RemoveAt(items, index)
  /\ LET recomputed ==
           [k \in 1..Len(pricingOptions) |->
              recalcOption(pricingOptions[k], baseCostOf(items'))]
     IN IF valid /\ index < Len(items)
        THEN /\ Len(saves) < MaxSubmits
             /\ pricingOptions' = IF flushed THEN recomputed ELSE pricingOptions
             /\ itemsEffect' = ~flushed
             /\ saves' = Append(saves, [NewSave EXCEPT !.items = items',
                                                       !.pricingOptions = pricingOptions'])
        ELSE /\ itemsEffect' = TRUE
             /\ UNCHANGED <<pricingOptions, saves>>
  /\ UNCHANGED <<id, loading, budget, extras, navigated, storeVars, uiVars, envVars, imageVars>>

removeExtraButton(index, valid) ==
  /\ Ready
  /\ index \in 1..Len(extras)
  /\ extras' = RemoveAt(extras, index)
  /\ IF valid /\ index < Len(extras)
     THEN /\ Len(saves) < MaxSubmits
          /\ saves' = Append(saves, [NewSave EXCEPT !.extras = extras'])
     ELSE UNCHANGED saves
  /\ UNCHANGED <<id, loading, budget, items, pricingOptions, itemsEffect, navigated, storeVars, uiVars, envVars, imageVars>>

\* some invocation is suspended at one of its awaits
InFlight == \E s \in 1..Len(saves) : saves[s].pc \notin {"done", "failed"}

submit_guarded(limit) ==
  /\ Ready
  /\ ~InFlight
  /\ Len(saves) < limit
  /\ saves' = Append(saves, NewSave)
  /\ UNCHANGED <<formVars, imageVars, navigated, storeVars, uiVars, envVars>>

\* the submit event of the form, dispatched at most limit times: the handler
\* starts whenever the form is on screen, whatever earlier invocations are doing
submit(limit) ==
  /\ Ready
  /\ Len(saves) < limit
  /\ saves' = Append(saves, NewSave)
  /\ UNCHANGED <<formVars, imageVars, navigated, storeVars, uiVars, envVars>>

handleSubmit == submit(MaxSubmits)

getUserReturns_noCheck(s, user) ==
  /\ s \in 1..Len(saves)
  /\ saves[s].pc = "getUser"
  /\ LET save == saves[s]
     IN /\ saves' = [saves EXCEPT ![s] =
                       [save EXCEPT !.user = user,
                                    !.baseCost = baseCostOf(save.items),
                                    !.pc = IF save.uploadedImages = << >>
                                           THEN "budget" ELSE "upload"]]
        /\ UNCHANGED toasts
  /\ UNCHANGED <<formVars, imageVars, navigated, storeVars, envVars, crashed>>

\* await supabase.auth.getUser() answers with a user or with none
getUserReturns(s, user) ==
  /\ s \in 1..Len(saves)
  /\ saves[s].pc = "getUser"
  /\ LET save == saves[s]
     IN IF user = NoId
        THEN /\ saves' = [saves EXCEPT ![s] = Caught(save)]
             /\ toasts' = Toast("saveError")
        ELSE /\ saves' = [saves EXCEPT ![s] =
                            [save EXCEPT !.user = user,
                                         !.baseCost = baseCostOf(save.items),
                                         !.pc = IF save.uploadedImages = << >>
                                                THEN "budget" ELSE "upload"]]
             /\ UNCHANGED toasts
  /\ UNCHANGED <<formVars, imageVars, navigated, storeVars, envVars, crashed>>

\* uploadImages: the upload of the k-th staged file answers
uploadReturns(s, ok) ==
  /\ s \in 1..Len(saves)
  /\ saves[s].pc = "upload"
  /\ LET save == saves[s]
         file == save.uploadedImages[save.k]
         object == [file |-> file, save |-> s]
         last == save.k = Len(save.uploadedImages)
         call == Call("upload", "storage", NoId, <<object>>, ok)
         moved == [save EXCEPT !.calls = Append(@, call),
                               !.k = IF last THEN 1 ELSE @ + 1,
                               !.pc = IF last THEN "budget" ELSE "upload"]
     IN IF ok
        THEN /\ db_storage' = db_storage \cup {object}
             /\ saves' = [saves EXCEPT ![s] =
                            [moved EXCEPT !.uploadedUrls = Append(@, object)]]
             /\ UNCHANGED toasts
        ELSE /\ saves' = [saves EXCEPT ![s] =
                            [moved EXCEPT !.notified = Append(@, "uploadError")]]
             /\ toasts' = Toast("uploadError")
             /\ UNCHANGED db_storage
  /\ UNCHANGED <<formVars, imageVars, navigated, db_budgets, db_items, db_seq, envVars, crashed>>

BudgetPayload_extrasInTotal(save) ==
  LET allImages == save.budget.images \o save.uploadedUrls
      common == [images |-> allImages,
                 total_amount |-> save.baseCost + baseCostOf(save.extras),
                 pricing_options |-> save.pricingOptions]
  IN IF save.id # NoId
     THEN Spread(save.budget, common)
     ELSE Spread(Spread(save.budget, common), [user_id |-> save.user])

\* the record handleSubmit sends to table budgets
BudgetPayload(save) ==
  LET allImages == save.budget.images \o save.uploadedUrls
      common == [images |-> allImages, total_amount |-> save.baseCost,
                 pricing_options |-> save.pricingOptions]
  IN IF save.id # NoId
     THEN Spread(save.budget, common)
     ELSE Spread(Spread(save.budget, common), [user_id |-> save.user])

\* the update or the insert of the budget record answers
budgetWriteReturns(s, ok) ==
  /\ s \in 1..Len(saves)
  /\ saves[s].pc = "budget"
  /\ LET save == saves[s]
         payload == BudgetPayload(save)
         newId == db_seq.budgets + 1
         call == IF save.id # NoId
                 THEN Call("update", "budgets", save.id, <<payload>>, ok)
                 ELSE Call("insert", "budgets", NoId, <<payload>>, ok)
         called == [save EXCEPT !.calls = Append(@, call)]
     IN IF ~ok
        THEN /\ saves' = [saves EXCEPT ![s] = Caught(called)]
             /\ toasts' = Toast("saveError")
             /\ UNCHANGED <<navigated, db_budgets, db_seq>>
        ELSE IF save.id # NoId
        THEN /\ db_budgets' =
                  [b \in DOMAIN db_budgets |->
                     IF b = save.id THEN Spread(db_budgets[b], payload) ELSE db_budgets[b]]
             /\ UNCHANGED db_seq
             /\ IF LinesOf(save) = << >>
                THEN /\ saves' = [saves EXCEPT ![s] = Succeeded(called)]
                     /\ toasts' = Toast("success")
                     /\ navigated' = TRUE
                ELSE /\ saves' = [saves EXCEPT ![s] = [called EXCEPT !.pc = "lines", !.k = 1]]
                     /\ UNCHANGED <<toasts, navigated>>
        ELSE /\ db_budgets' =
                  [b \in DOMAIN db_budgets \cup {newId} |->
                     IF b = newId THEN Spread(payload, [id |-> newId]) ELSE db_budgets[b]]
             /\ db_seq' = [db_seq EXCEPT !.budgets = newId]
             /\ saves' = [saves EXCEPT ![s] =
                            [called EXCEPT !.newBudget = newId, !.pc = "lines", !.k = 1]]
             /\ UNCHANGED <<toasts, navigated>>
  /\ UNCHANGED <<formVars, imageVars, db_items, db_storage, envVars, crashed>>

\* rows inserted into budget_items get fresh ids, in order
Inserted(rows) ==
  [k \in 1..Len(rows) |-> Spread(rows[k], [id |-> db_seq.budget_items + k])]

LineWrite_alwaysInsert(save, line, ok) ==
  Call("insert", "budget_items", NoId, <<Spread(line, [budget_id |-> save.id])>>, ok)

\* the write the update path issues for one line
LineWrite(save, line, ok) ==
  IF line.id # NoId
  THEN Call("update", "budget_items", line.id, <<line>>, ok)
  ELSE Call("insert", "budget_items", NoId, <<Spread(line, [budget_id |-> save.id])>>, ok)

\* the rows the create path inserts in one call
CreateRows(save) ==
  [k \in 1..Len(LinesOf(save)) |->
     Spread(LinesOf(save)[k], [budget_id |-> save.newBudget])]

ApplyCall_dropsRest(call) ==
  IF call.op = "insert"
  THEN db_items \o Inserted(call.rows)
  ELSE LET kept == SelectSeq(db_items, LAMBDA r : r.id = call.key)
       IN [k \in 1..Len(kept) |-> Spread(kept[k], call.rows[1])]

\* what a write to budget_items leaves in the table
ApplyCall(call) ==
  IF call.op = "insert"
  THEN db_items \o Inserted(call.rows)
  ELSE [k \in 1..Len(db_items) |->
          IF db_items[k].id = call.key THEN Spread(db_items[k], call.rows[1])
          ELSE db_items[k]]

lineWriteReturns_rollback(s, ok) ==
  /\ s \in 1..Len(saves)
  /\ saves[s].pc = "lines"
  /\ LET save == saves[s]
         lines == LinesOf(save)
         call == IF save.id # NoId
                 THEN LineWrite(save, lines[save.k], ok)
                 ELSE Call("insert", "budget_items", NoId, CreateRows(save), ok)
         last == save.id = NoId \/ save.k = Len(lines)
         called == [save EXCEPT !.calls = Append(@, call)]
     IN IF ~ok
        THEN /\ saves' = [saves EXCEPT ![s] = Caught(called)]
             /\ toasts' = Toast("saveError")
             /\ db_budgets' = [b \in DOMAIN db_budgets \ {save.newBudget} |-> db_budgets[b]]
             /\ UNCHANGED <<navigated, db_items, db_seq>>
        ELSE /\ db_items' = ApplyCall(call)
             /\ db_seq' = IF call.op = "insert"
                          THEN [db_seq EXCEPT !.budget_items = @ + Len(call.rows)]
                          ELSE db_seq
             /\ UNCHANGED db_budgets
             /\ IF last
                THEN /\ saves' = [saves EXCEPT ![s] = Succeeded(called)]
                     /\ toasts' = Toast("success")
                     /\ navigated' = TRUE
                ELSE /\ saves' = [saves EXCEPT ![s] = [called EXCEPT !.k = @ + 1]]
                     /\ UNCHANGED <<toasts, navigated>>
  /\ UNCHANGED <<formVars, imageVars, db_storage, envVars, crashed>>

\* a write to budget_items answers: on the update path the write of the
\* k-th line, on the create path the one insert of all lines
lineWriteReturns(s, ok) ==
  /\ s \in 1..Len(saves)
  /\ saves[s].pc = "lines"
  /\ LET save == saves[s]
         lines == LinesOf(save)
         call == IF save.id # NoId
                 THEN LineWrite(save, lines[save.k], ok)
                 ELSE Call("insert", "budget_items", NoId, CreateRows(save), ok)
         last == save.id = NoId \/ save.k = Len(lines)
         called == [save EXCEPT !.calls = Append(@, call)]
     IN IF ~ok
        THEN /\ saves' = [saves EXCEPT ![s] = Caught(called)]
             /\ toasts' = Toast("saveError")
             /\ UNCHANGED <<navigated, db_items, db_seq>>
        ELSE /\ db_items' = ApplyCall(call)
             /\ db_seq' = IF call.op = "insert"
                          THEN [db_seq EXCEPT !.budget_items = @ + Len(call.rows)]
                          ELSE db_seq
             /\ IF last
                THEN /\ saves' = [saves EXCEPT ![s] = Succeeded(called)]
                     /\ toasts' = Toast("success")
                     /\ navigated' = TRUE
                ELSE /\ saves' = [saves EXCEPT ![s] = [called EXCEPT !.k = @ + 1]]
                     /\ UNCHANGED <<toasts, navigated>>
  /\ UNCHANGED <<formVars, imageVars, db_budgets, db_storage, envVars, crashed>>

\* ----------------------------------------------------- the backing store
\* rows of budget 1 as an earlier session left them; the second material
\* predates the line_cost column and carries its default 0
StoredItems ==
  << [id |-> 1, budget_id |-> 1, description |-> "", quantity |-> 2, unit_price |-> 50,
      line_cost |-> 100, type |-> "material", lead_time_days |-> <<10>>],
     [id |-> 2, budget_id |-> 1, description |-> "", quantity |-> 1, unit_price |-> 999,
      line_cost |-> 999, type |-> "extra", lead_time_days |-> << >>],
     [id |-> 3, budget_id |-> 1, description |-> "", quantity |-> 2, unit_price |-> 50,
      line_cost |-> 0, type |-> "material", lead_time_days |-> << >>] >>

StoredBudget ==
  [id |-> 1, user_id |-> 1, project_start_date |-> << >>, estimated_end_date |-> << >>,
   images |-> <<[file |-> "f0", save |-> 0]>>, total_amount |-> 100,
   pricing_options |-> [InitialPricingOptions EXCEPT ![1].marginPercentage = 30]]

StoredSeq == [budgets |-> 1, budget_items |-> 3]

NoCall == [startDate |-> 0, daysToAdd |-> 0, result |-> << >>]

NoToasts == [n \in {"loadError", "uploadError", "saveError", "success"} |-> 0]

\* ------------------------------------------------------------ user inputs
\* what the line inputs of the form deliver: <<field, value>>
PricingLineInputs ==
  ({"quantity"} \X {1, 2}) \cup ({"unit_price"} \X {0, 50})

ExtraLineInputs ==
  ({"quantity"} \X {1, 2}) \cup ({"unit_price"} \X {0, 999})

TierInputs ==
  ({"marginPercentage"} \X {25})

\* ---------------------------------------------------------- specification
Init ==
  /\ id \in {NoId, 1}
  /\ loading = TRUE
  /\ budget = InitialBudget
  /\ items = << >>
  /\ extras = << >>
  /\ pricingOptions = InitialPricingOptions
  /\ itemsEffect = TRUE
  /\ uploadedImages = << >>
  /\ imageUrls = << >>
  /\ saves = << >>
  /\ navigated = FALSE
  /\ toasts = NoToasts
  /\ crashed = FALSE
  /\ db_budgets = [b \in {1} |-> StoredBudget]
  /\ db_items = SubSeq(StoredItems, 2, 3)
  /\ db_storage = {}
  /\ db_seq = StoredSeq
  /\ tz = UTC
  /\ today = 0
  /\ dateCall = NoCall

Next ==
  \/ MountNew
  \/ loadBudgetOk
  \/ loadBudgetFail
  \/ ItemsEffect
  \/ addItem
  \/ \E index \in 1..MaxItems + 1, in \in PricingLineInputs : updateItem(index, in[1], in[2])
  \/ \E index \in 1..MaxItems + 1 : removeItem(index)
  \/ addExtra
  \/ \E index \in 1..MaxExtras + 1, in \in ExtraLineInputs : updateExtra(index, in[1], in[2])
  \/ \E index \in 1..MaxExtras + 1 : removeExtra(index)
  \/ \E index \in 1..3, in \in TierInputs : updatePricingOption(index, in[1], in[2])

Spec == Init /\ [][Next]_vars


\* ------------------------------------------------ lead time specification
LeadItemInputs == {"lead_time_days"} \X {<<-3>>, <<0>>, <<10>>}
LeadExtraInputs == {"lead_time_days"} \X {<<0>>, <<3>>}
\* what the start date input delivers: emptied, or Fri 2025-03-28
LeadStartDates == {<< >>, <<25>>}

NewForm ==
  /\ id = NoId
  /\ loading = TRUE
  /\ budget = InitialBudget
  /\ items = << >>
  /\ extras = << >>
  /\ pricingOptions = InitialPricingOptions
  /\ itemsEffect = TRUE
  /\ uploadedImages = << >>
  /\ imageUrls = << >>
  /\ saves = << >>
  /\ navigated = FALSE
  /\ toasts = NoToasts
  /\ crashed = FALSE

StoreAsLeft ==
  /\ db_budgets = [b \in {1} |-> StoredBudget]
  /\ db_items = StoredItems
  /\ db_storage = {}
  /\ db_seq = StoredSeq

InitLead ==
  /\ NewForm
  /\ StoreAsLeft
  /\ tz \in {UTC, Lisbon}
  /\ today = 4
  /\ dateCall = NoCall

NextLead ==
  \/ MountNew
  \/ ItemsEffect
  \/ addItem
  \/ \E index \in 1..MaxItems + 1, in \in LeadItemInputs : updateItem(index, in[1], in[2])
  \/ \E index \in 1..MaxItems + 1 : removeItem(index)
  \/ addExtra
  \/ \E index \in 1..MaxExtras + 1, in \in LeadExtraInputs : updateExtra(index, in[1], in[2])
  \/ \E index \in 1..MaxExtras + 1 : removeExtra(index)
  \/ \E date \in LeadStartDates : editStartDate(date)
  \/ setStartDateToToday

SpecLead == InitLead /\ [][NextLead]_vars

\* ------------------------------------------------ start date specification
\* one lead time per collection, the start date edited in between
StartItemInputs == {"lead_time_days"} \X {<<10>>}
StartExtraInputs == {"lead_time_days"} \X {<<3>>}

NextStart ==
  \/ MountNew
  \/ ItemsEffect
  \/ addItem
  \/ \E index \in 1..MaxItems + 1, in \in StartItemInputs : updateItem(index, in[1], in[2])
  \/ \E index \in 1..MaxItems + 1 : removeItem(index)
  \/ addExtra
  \/ \E index \in 1..MaxExtras + 1, in \in StartExtraInputs : updateExtra(index, in[1], in[2])
  \/ \E index \in 1..MaxExtras + 1 : removeExtra(index)
  \/ \E date \in LeadStartDates : editStartDate(date)
  \/ setStartDateToToday

SpecStart == InitLead /\ [][NextStart]_vars

\* ------------------------------------------------- scenario specification
ScenarioItemInputs ==
  ({"quantity"} \X {2}) \cup ({"unit_price"} \X {50}) \cup ({"lead_time_days"} \X {<<10>>})
ScenarioExtraInputs ==
  ({"unit_price"} \X {999}) \cup ({"lead_time_days"} \X {<<0>>})
\* Mondays: 2025-03-03, 2025-03-24
ScenarioStartDates == {0, 21}

NextScenario ==
  \/ MountNew
  \/ ItemsEffect
  \/ addItem
  \/ \E index \in 1..MaxItems + 1, in \in ScenarioItemInputs : updateItem(index, in[1], in[2])
  \/ addExtra
  \/ \E index \in 1..MaxExtras + 1, in \in ScenarioExtraInputs : updateExtra(index, in[1], in[2])
  \/ \E date \in ScenarioStartDates : editStartDate(<<date>>)

InitScenario ==
  /\ NewForm
  /\ StoreAsLeft
  /\ tz \in TimeZones
  /\ today = 4
  /\ dateCall = NoCall

SpecScenario == InitScenario /\ [][NextScenario]_vars

\* ------------------------------------ calculateEstimatedEndDate on its own
MaxStartDay == 27
MaxDaysToAdd == 6

InitDate ==
  /\ NewForm
  /\ StoreAsLeft
  /\ tz \in TimeZones
  /\ today = 0
  /\ dateCall \in [startDate : 0..MaxStartDay, daysToAdd : 1..MaxDaysToAdd, result : {<< >>}]

callCalculateEstimatedEndDate ==
  /\ dateCall.result = << >>
  /\ dateCall' = [dateCall EXCEPT !.result =
                    <<calculateEstimatedEndDate(tz, dateCall.startDate, dateCall.daysToAdd)>>]
  /\ UNCHANGED <<formVars, imageVars, saveVars, storeVars, uiVars, tz, today>>

SpecDate == InitDate /\ [][callCalculateEstimatedEndDate]_vars

\* ------------------------------------------------------ bound specification
\* calls of calculateEstimatedEndDate with any day count, zero and
\* negative included, next to a form whose lead times are being entered
InitBound ==
  /\ NewForm
  /\ StoreAsLeft
  /\ tz \in TimeZones
  /\ today = 0
  /\ dateCall \in [startDate : 0..MaxStartDay, daysToAdd : (-1)..MaxDaysToAdd,
                   result : {<< >>}]

NextBound ==
  \/ MountNew
  \/ ItemsEffect
  \/ addItem
  \/ \E index \in 1..MaxItems, in \in LeadItemInputs : updateItem(index, in[1], in[2])
  \/ callCalculateEstimatedEndDate

SpecBound == InitBound /\ [][NextBound]_vars

\* ------------------------------------------------------ save specification
\* Forms as the handlers leave them, ready to be submitted.
MaterialA ==
  updateLine(updateLine(<<BlankLine("material")>>, 1, "quantity", 2), 1, "unit_price", 50)[1]
MaterialB == updateLine(<<BlankLine("material")>>, 1, "unit_price", 7)[1]
ExtraX == updateLine(<<BlankLine("extra")>>, 1, "unit_price", 999)[1]

PreparedForms ==
  { \* a new budget without lines
    [id |-> NoId, budget |-> InitialBudget, items |-> << >>, extras |-> << >>,
     uploadedImages |-> << >>],
    \* a new budget: two materials, one extra, two staged images
    [id |-> NoId, budget |-> InitialBudget, items |-> <<MaterialA, MaterialB>>,
     extras |-> <<ExtraX>>, uploadedImages |-> <<"f1", "f2">>],
    \* budget 1 loaded, its second material removed, a material added, one staged image
    [id |-> 1, budget |-> StoredBudget, items |-> <<StoredItems[1], MaterialB>>,
     extras |-> <<StoredItems[2]>>, uploadedImages |-> <<"f1">>],
    \* budget 1 loaded, its stored extra replaced by a new one
    [id |-> 1, budget |-> StoredBudget, items |-> <<StoredItems[1], StoredItems[3]>>,
     extras |-> <<ExtraX>>, uploadedImages |-> << >>],
    \* budget 1 loaded, all its lines removed
    [id |-> 1, budget |-> StoredBudget, items |-> << >>, extras |-> << >>,
     uploadedImages |-> << >>] }

InitSave ==
  /\ \E form \in PreparedForms :
       /\ id = form.id
       /\ budget = form.budget
       /\ items = form.items
       /\ extras = form.extras
       /\ uploadedImages = form.uploadedImages
       /\ imageUrls = form.budget.images \o
                        [k \in 1..Len(form.uploadedImages) |-> Preview(form.uploadedImages[k])]
       /\ pricingOptions =
            [k \in 1..Len(InitialPricingOptions) |->
               recalcOption(InitialPricingOptions[k], baseCostOf(form.items))]
  /\ loading = FALSE
  /\ itemsEffect = FALSE
  /\ saves = << >>
  /\ navigated = FALSE
  /\ toasts = NoToasts
  /\ crashed = FALSE
  /\ StoreAsLeft
  /\ tz = UTC
  /\ today = 0
  /\ dateCall = NoCall

Users == {NoId, 1}

NextSave ==
  \/ handleSubmit
  \/ \E s \in 1..MaxSubmits, user \in Users : getUserReturns(s, user)
  \/ \E s \in 1..MaxSubmits, ok \in BOOLEAN : uploadReturns(s, ok)
  \/ \E s \in 1..MaxSubmits, ok \in BOOLEAN : budgetWriteReturns(s, ok)
  \/ \E s \in 1..MaxSubmits, ok \in BOOLEAN : lineWriteReturns(s, ok)
  \/ updateItem(1, "unit_price", 60)
  \/ ItemsEffect

SpecSave == InitSave /\ [][NextSave]_vars

\* --------------------------------------------- overlapping submissions
\* the prepared forms, submitted up to MaxOverlap times
NextOverlap ==
  \/ submit(MaxOverlap)
  \/ \E s \in 1..MaxOverlap, user \in Users : getUserReturns(s, user)
  \/ \E s \in 1..MaxOverlap, ok \in BOOLEAN : uploadReturns(s, ok)
  \/ \E s \in 1..MaxOverlap, ok \in BOOLEAN : budgetWriteReturns(s, ok)
  \/ \E s \in 1..MaxOverlap, ok \in BOOLEAN : lineWriteReturns(s, ok)

SpecOverlap == InitSave /\ [][NextOverlap]_vars

\* ----------------------------------------------------- image specification
\* no submit yet: the form is still being filled in
Editing == saves = << >>

\* what the file input delivers: one or two files, none of them staged yet
ImageSelections ==
  {files \in {<<"f1">>, <<"f2">>, <<"f1", "f2">>} :
     \A k \in 1..Len(files), j \in 1..Len(uploadedImages) : files[k] # uploadedImages[j]}

\* the persisted image of budget 1 and two staged files
MaxPreviews == Len(StoredBudget.images) + Cardinality({"f1", "f2"})

InitImage ==
  /\ id \in {NoId, 1}
  /\ loading = TRUE
  /\ budget = InitialBudget
  /\ items = << >>
  /\ extras = << >>
  /\ pricingOptions = InitialPricingOptions
  /\ itemsEffect = TRUE
  /\ uploadedImages = << >>
  /\ imageUrls = << >>
  /\ saves = << >>
  /\ navigated = FALSE
  /\ toasts = NoToasts
  /\ crashed = FALSE
  /\ db_budgets = [b \in {1} |-> StoredBudget]
  /\ db_items = SubSeq(StoredItems, 1, 1)
  /\ db_storage = {}
  /\ db_seq = StoredSeq
  /\ tz = UTC
  /\ today = 0
  /\ dateCall = NoCall

\* a submit is repeated only after the one before has ended
NextImage ==
  \/ MountNew
  \/ loadBudgetOk
  \/ loadBudgetFail
  \/ ItemsEffect
  \/ Editing /\ \E files \in ImageSelections : handleImageUpload(files)
  \/ Editing /\ \E index \in 1..MaxPreviews : removeImage(index)
  \/ ~InFlight /\ submit(MaxAttempts)
  \/ \E s \in 1..MaxAttempts, user \in Users : getUserReturns(s, user)
  \/ \E s \in 1..MaxAttempts, ok \in BOOLEAN : uploadReturns(s, ok)
  \/ \E s \in 1..MaxAttempts, ok \in BOOLEAN : budgetWriteReturns(s, ok)
  \/ \E s \in 1..MaxAttempts, ok \in BOOLEAN : lineWriteReturns(s, ok)

SpecImage == InitImage /\ [][NextImage]_vars

\* ----------------------------------------------------- frame specification
\* every control of the form, then the save
FrameLineInputs == {"unit_price"} \X {50}
FrameStartDates == {<<25>>}
FrameTierInputs == {"marginPercentage"} \X {25}

NextFrame ==
  \/ MountNew
  \/ loadBudgetOk
  \/ loadBudgetFail
  \/ ItemsEffect
  \/ Editing /\ addItem
  \/ Editing /\ \E index \in 1..MaxItems, in \in FrameLineInputs : updateItem(index, in[1], in[2])
  \/ Editing /\ \E index \in 1..MaxItems, valid \in BOOLEAN, flushed \in BOOLEAN :
                  removeItemButton(index, valid, flushed)
  \/ Editing /\ addExtra
  \/ Editing /\ \E index \in 1..MaxExtras, in \in FrameLineInputs : updateExtra(index, in[1], in[2])
  \/ Editing /\ \E index \in 1..MaxExtras, valid \in BOOLEAN : removeExtraButton(index, valid)
  \/ Editing /\ \E in \in FrameTierInputs : updatePricingOption(1, in[1], in[2])
  \/ Editing /\ \E date \in FrameStartDates : editStartDate(date)
  \/ Editing /\ setStartDateToToday
  \/ Editing /\ \E files \in ImageSelections : handleImageUpload(files)
  \/ Editing /\ \E index \in 1..MaxPreviews : removeImage(index)
  \/ handleSubmit
  \/ \E s \in 1..MaxSubmits, user \in Users : getUserReturns(s, user)
  \/ \E s \in 1..MaxSubmits, ok \in BOOLEAN : uploadReturns(s, ok)
  \/ \E s \in 1..MaxSubmits, ok \in BOOLEAN : budgetWriteReturns(s, ok)
  \/ \E s \in 1..MaxSubmits, ok \in BOOLEAN : lineWriteReturns(s, ok)

SpecFrame == InitImage /\ [][NextFrame]_vars

\* ------------------------------------------------- end date specification
\* a new budget: lines with a lead time, the start date set, then the save
EndLineInputs == {"lead_time_days"} \X {<<10>>}

NextEnd ==
  \/ MountNew
  \/ ItemsEffect
  \/ Editing /\ addItem
  \/ Editing /\ \E index \in 1..MaxItems, in \in EndLineInputs : updateItem(index, in[1], in[2])
  \/ Editing /\ \E index \in 1..MaxItems : removeItem(index)
  \/ Editing /\ addExtra
  \/ Editing /\ \E index \in 1..MaxExtras, in \in EndLineInputs : updateExtra(index, in[1], in[2])
  \/ Editing /\ \E date \in FrameStartDates : editStartDate(date)
  \/ Editing /\ setStartDateToToday
  \/ handleSubmit
  \/ \E s \in 1..MaxSubmits, user \in Users : getUserReturns(s, user)
  \/ \E s \in 1..MaxSubmits, ok \in BOOLEAN : budgetWriteReturns(s, ok)
  \/ \E s \in 1..MaxSubmits, ok \in BOOLEAN : lineWriteReturns(s, ok)

SpecEnd == InitLead /\ [][NextEnd]_vars

\* --------------------------------------------------- reload specification
\* budget 1 as earlier sessions may have saved it: the margins of the tiers
\* are the initial ones or ones a user has entered, the derived fields are
\* those of the stored materials
StoredMargins == {10, 30, 55} \X {15, 25} \X {20, 35}

StoredTiers(margins) ==
  [k \in 1..Len(InitialPricingOptions) |->
     recalcOption([InitialPricingOptions[k] EXCEPT !.marginPercentage = margins[k]],
                  baseCostOf(SelectSeq2(StoredItems, "material")))]

InitReload ==
  /\ id = 1
  /\ loading = TRUE
  /\ budget = InitialBudget
  /\ items = << >>
  /\ extras = << >>
  /\ pricingOptions = InitialPricingOptions
  /\ itemsEffect = TRUE
  /\ uploadedImages = << >>
  /\ imageUrls = << >>
  /\ saves = << >>
  /\ navigated = FALSE
  /\ toasts = NoToasts
  /\ crashed = FALSE
  /\ \E margins \in StoredMargins :
       db_budgets = [b \in {1} |-> [StoredBudget EXCEPT !.pricing_options = StoredTiers(margins)]]
  /\ db_items = StoredItems
  /\ db_storage = {}
  /\ db_seq = StoredSeq
  /\ tz = UTC
  /\ today = 0
  /\ dateCall = NoCall

\* the budget is opened and saved as it is
NextReload ==
  \/ loadBudgetOk
  \/ ItemsEffect
  \/ handleSubmit
  \/ \E s \in 1..MaxSubmits, user \in Users : getUserReturns(s, user)
  \/ \E s \in 1..MaxSubmits, ok \in BOOLEAN : budgetWriteReturns(s, ok)
  \/ \E s \in 1..MaxSubmits, ok \in BOOLEAN : lineWriteReturns(s, ok)

SpecReload == InitReload /\ [][NextReload]_vars

\* ------------------------------------------------------ tier specification
\* what the two inputs of a tier deliver
TierFieldInputs ==
  ({"quantity"} \X {5}) \cup ({"marginPercentage"} \X {0, 25})

TierLineInputs == {"unit_price"} \X {50}

NextTier ==
  \/ MountNew
  \/ loadBudgetOk
  \/ ItemsEffect
  \/ addItem
  \/ \E index \in 1..MaxItems + 1, in \in TierLineInputs : updateItem(index, in[1], in[2])
  \/ \E index \in 1..MaxItems + 1 : removeItem(index)
  \/ \E index \in 1..3, in \in TierFieldInputs : updatePricingOption(index, in[1], in[2])

SpecTier == Init /\ [][NextTier]_vars

\* ------------------------------------------------- life cycle specification
\* A form is opened (new, or budget 1), filled in, saved, and a stored
\* budget is opened again from the list. Lines and tiers are edited before
\* the first submit.
LifeLineInputs == {"unit_price"} \X {50}
LifeTierInputs == {"marginPercentage"} \X {25}


\* the list's link to /budgets/:id mounts a fresh BudgetFormPage
openBudget(budgetId) ==
  /\ navigated
  /\ budgetId \in DOMAIN db_budgets
  /\ id' = budgetId
  /\ loading' = TRUE
  /\ budget' = InitialBudget
  /\ items' = << >>
  /\ extras' = << >>
  /\ pricingOptions' = InitialPricingOptions
  /\ itemsEffect' = TRUE
  /\ uploadedImages' = << >>
  /\ imageUrls' = << >>
  /\ navigated' = FALSE
  /\ UNCHANGED <<saves, storeVars, uiVars, envVars>>

NextLife ==
  \/ MountNew
  \/ loadBudgetOk
  \/ loadBudgetFail
  \/ ItemsEffect
  \/ Editing /\ addItem
  \/ Editing /\ \E index \in 1..MaxItems + 1, in \in LifeLineInputs : updateItem(index, in[1], in[2])
  \/ Editing /\ \E index \in 1..MaxItems + 1 : removeItem(index)
  \/ Editing /\ addExtra
  \/ Editing /\ \E index \in 1..MaxExtras + 1 : removeExtra(index)
  \/ Editing /\ \E index \in 2..3, in \in LifeTierInputs : updatePricingOption(index, in[1], in[2])
  \/ handleSubmit
  \/ \E s \in 1..MaxSubmits, user \in Users : getUserReturns(s, user)
  \/ \E s \in 1..MaxSubmits, ok \in BOOLEAN : budgetWriteReturns(s, ok)
  \/ \E s \in 1..MaxSubmits, ok \in BOOLEAN : lineWriteReturns(s, ok)
  \/ \E budgetId \in 1..2 : openBudget(budgetId)

InitLife ==
  /\ id \in {NoId, 1}
  /\ loading = TRUE
  /\ budget = InitialBudget
  /\ items = << >>
  /\ extras = << >>
  /\ pricingOptions = InitialPricingOptions
  /\ itemsEffect = TRUE
  /\ uploadedImages = << >>
  /\ imageUrls = << >>
  /\ saves = << >>
  /\ navigated = FALSE
  /\ toasts = NoToasts
  /\ crashed = FALSE
  /\ StoreAsLeft
  /\ tz = UTC
  /\ today = 0
  /\ dateCall = NoCall

SpecLife == InitLife /\ [][NextLife]_vars

\* ----------------------------------------------------- load specification
\* budgets are opened, lines are added, the budget is saved and opened again
NextLoad ==
  \/ MountNew
  \/ loadBudgetOk
  \/ loadBudgetFail
  \/ ItemsEffect
  \/ Editing /\ addItem
  \/ Editing /\ addExtra
  \/ handleSubmit
  \/ \E s \in 1..MaxSubmits, user \in Users : getUserReturns(s, user)
  \/ \E s \in 1..MaxSubmits, ok \in BOOLEAN : budgetWriteReturns(s, ok)
  \/ \E s \in 1..MaxSubmits, ok \in BOOLEAN : lineWriteReturns(s, ok)
  \/ \E budgetId \in 1..2 : openBudget(budgetId)

SpecLoad == InitLife /\ [][NextLoad]_vars

\* ----------------------------------------- the single-list form (variant)
\* The other BudgetFormPage of the repository keeps one list of lines and a
\* formData record, and saves by deleting the budget's lines and inserting
\* the list. It is modelled on the same variables: items is its list,
\* budget its formData, loading its loading flag; extras, pricingOptions and
\* the images stay as they start. A line's total_price and the form's
\* total_amount are in hundredths.
list_BlankLine ==
  [id |-> NoId, description |-> "", quantity |-> 1, unit_price |-> 0, margin |-> 0,
   total_price |-> 0, type |-> "material"]

list_InitialFormData == [id |-> NoId, total_amount |-> 0]

RECURSIVE SumTotalPrice(_)
SumTotalPrice(lines) ==
  IF lines = << >> THEN 0 ELSE lines[1].total_price + SumTotalPrice(Tail(lines))

calculateTotal_materials(currentItems) ==
  [budget EXCEPT !.total_amount =
     SumTotalPrice(SelectSeq(currentItems, LAMBDA r : r.type = "material"))]

\* setFormData(prev => ({ ...prev, total_amount: total }))
calculateTotal(currentItems) == [budget EXCEPT !.total_amount = SumTotalPrice(currentItems)]

list_Ready == ~loading /\ ~navigated /\ ~crashed

handleAddItem ==
  /\ list_Ready
  /\ Len(items) < MaxItems
  /\ items' = Append(items, list_BlankLine)
  /\ UNCHANGED <<id, loading, budget, extras, pricingOptions, itemsEffect, storeVars, uiVars, envVars, imageVars, saveVars>>

handleRemoveItem(index) ==
  /\ list_Ready
  /\ index \in 1..Len(items)
  /\ items' = RemoveAt(items, index)
  /\ budget' = calculateTotal(RemoveAt(items, index))
  /\ UNCHANGED <<id, loading, extras, pricingOptions, itemsEffect, storeVars, uiVars, envVars, imageVars, saveVars>>

handleItemChange(index, field, value) ==
  /\ list_Ready
  /\ index \in 1..Len(items)
  /\ LET edited == [items[index] EXCEPT ![field] = value]
         basePrice == edited.quantity * edited.unit_price
         marginAmount == basePrice * edited.margin
         item == IF field \in {"quantity", "unit_price", "margin"}
                 THEN [edited EXCEPT !.total_price = basePrice * Hundred + marginAmount]
                 ELSE edited
         newItems == [items EXCEPT ![index] = item]
     IN /\ items' = newItems
        /\ budget' = calculateTotal(newItems)
  /\ UNCHANGED <<id, loading, extras, pricingOptions, itemsEffect, storeVars, uiVars, envVars, imageVars, saveVars>>

\* loadBudget(id) of the variant, both queries answered
list_loadBudgetOk ==
  /\ id # NoId
  /\ loading
  /\ saves = << >>
  /\ id \in DOMAIN db_budgets
  /\ budget' = db_budgets[id]
  /\ items' = ItemsOfBudget(id)
  /\ loading' = FALSE
  /\ UNCHANGED <<id, extras, pricingOptions, itemsEffect, storeVars, uiVars, envVars, imageVars, saveVars>>

\* loadBudget(id) of the variant, a query rejected: toast and navigate
list_loadBudgetFail ==
  /\ id # NoId
  /\ loading
  /\ saves = << >>
  /\ toasts' = Toast("loadError")
  /\ navigated' = TRUE
  /\ loading' = FALSE
  /\ UNCHANGED <<id, budget, items, extras, pricingOptions, itemsEffect, storeVars, envVars, imageVars, saves, crashed>>

\* One invocation of the variant's handleSubmit: its closure (id, formData,
\* items), its local budgetId and the calls it has issued.
list_NewSave ==
  [pc |-> "budget", id |-> id, budget |-> budget, items |-> items, budgetId |-> id,
   calls |-> << >>, notified |-> << >>]

\* the submit event: setLoading(true) takes the form off the screen
list_handleSubmit ==
  /\ list_Ready
  /\ Len(saves) < MaxSubmits
  /\ saves' = Append(saves, list_NewSave)
  /\ loading' = TRUE
  /\ UNCHANGED <<id, budget, items, extras, pricingOptions, itemsEffect, imageVars, navigated, storeVars, uiVars, envVars>>

\* catch: toast.error; finally: setLoading(false)
list_Caught(save) == [save EXCEPT !.pc = "failed", !.notified = Append(@, "saveError")]

\* the insert or the update of the budget record answers
list_budgetWriteReturns(s, ok) ==
  /\ s \in 1..Len(saves)
  /\ saves[s].pc = "budget"
  /\ LET save == saves[s]
         newId == db_seq.budgets + 1
         call == IF save.id = NoId
                 THEN Call("insert", "budgets", NoId, <<save.budget>>, ok)
                 ELSE Call("update", "budgets", save.id, <<save.budget>>, ok)
         called == [save EXCEPT !.calls = Append(@, call)]
     IN IF ~ok
        THEN /\ saves' = [saves EXCEPT ![s] = list_Caught(called)]
             /\ toasts' = Toast("saveError")
             /\ loading' = FALSE
             /\ UNCHANGED <<db_budgets, db_seq>>
        ELSE IF save.id = NoId
        THEN /\ db_budgets' =
                  [b \in DOMAIN db_budgets \cup {newId} |->
                     IF b = newId THEN Spread(save.budget, [id |-> newId]) ELSE db_budgets[b]]
             /\ db_seq' = [db_seq EXCEPT !.budgets = newId]
             /\ saves' = [saves EXCEPT ![s] = [called EXCEPT !.budgetId = newId, !.pc = "insert"]]
             /\ UNCHANGED <<toasts, loading>>
        ELSE /\ db_budgets' =
                  [b \in DOMAIN db_budgets |->
                     IF b = save.id THEN Spread(db_budgets[b], save.budget) ELSE db_budgets[b]]
             /\ saves' = [saves EXCEPT ![s] = [called EXCEPT !.pc = "delete"]]
             /\ UNCHANGED <<db_seq, toasts, loading>>
  /\ UNCHANGED <<id, budget, items, extras, pricingOptions, itemsEffect, imageVars, navigated, db_items, db_storage, envVars, crashed>>

\* the delete of the budget's lines answers; its result is not looked at
list_deleteReturns(s, ok) ==
  /\ s \in 1..Len(saves)
  /\ saves[s].pc = "delete"
  /\ LET save == saves[s]
         call == Call("delete", "budget_items", save.id, ItemsOfBudget(save.id), ok)
     IN /\ db_items' = IF ok THEN SelectSeq(db_items, LAMBDA r : r.budget_id # save.id)
                       ELSE db_items
        /\ saves' = [saves EXCEPT ![s] = [save EXCEPT !.calls = Append(@, call), !.pc = "insert"]]
  /\ UNCHANGED <<id, loading, budget, items, extras, pricingOptions, itemsEffect, imageVars, navigated, db_budgets, db_storage, db_seq, uiVars, envVars>>

\* items.map(item => ({ ...item, budget_id: budgetId }))
itemsWithBudgetId(save) ==
  [k \in 1..Len(save.items) |-> Spread(save.items[k], [budget_id |-> save.budgetId])]

\* a row sent with an id keeps it; a row sent without one gets the default
list_Inserted(rows) ==
  [k \in 1..Len(rows) |->
     IF rows[k].id # NoId THEN rows[k] ELSE Spread(rows[k], [id |-> db_seq.budget_items + k])]

\* the primary key rejects a row whose id is already stored
list_Conflict(rows) ==
  \E k \in 1..Len(rows), j \in 1..Len(db_items) :
    rows[k].id # NoId /\ rows[k].id = db_items[j].id

\* the insert of the list answers
list_insertReturns(s, ok) ==
  /\ s \in 1..Len(saves)
  /\ saves[s].pc = "insert"
  /\ LET save == saves[s]
         rows == itemsWithBudgetId(save)
         accepted == ok /\ ~list_Conflict(rows)
         call == Call("insert", "budget_items", NoId, rows, accepted)
         called == [save EXCEPT !.calls = Append(@, call)]
     IN IF ~accepted
        THEN /\ saves' = [saves EXCEPT ![s] = list_Caught(called)]
             /\ toasts' = Toast("saveError")
             /\ UNCHANGED <<navigated, db_items, db_seq>>
        ELSE /\ db_items' = db_items \o list_Inserted(rows)
             /\ db_seq' = [db_seq EXCEPT !.budget_items = @ + Len(rows)]
             /\ saves' = [saves EXCEPT ![s] =
                            [called EXCEPT !.pc = "done", !.notified = Append(@, "success")]]
             /\ toasts' = Toast("success")
             /\ navigated' = TRUE
  /\ loading' = FALSE
  /\ UNCHANGED <<id, budget, items, extras, pricingOptions, itemsEffect, imageVars, db_budgets, db_storage, envVars, crashed>>

\* rows of budget 1 and of another budget, as earlier sessions left them
list_StoredItems ==
  << [id |-> 1, budget_id |-> 1, description |-> "", quantity |-> 2, unit_price |-> 50,
      margin |-> 10, total_price |-> 11000, type |-> "material"],
     [id |-> 2, budget_id |-> 1, description |-> "", quantity |-> 1, unit_price |-> 999,
      margin |-> 0, total_price |-> 99900, type |-> "extra"],
     [id |-> 3, budget_id |-> 9, description |-> "", quantity |-> 1, unit_price |-> 0,
      margin |-> 0, total_price |-> 0, type |-> "material"] >>

list_StoredBudget == [id |-> 1, total_amount |-> 110900]

list_LineInputs ==
  ({"unit_price"} \X {50}) \cup ({"margin"} \X {10}) \cup ({"type"} \X {"extra"})

InitVariant ==
  /\ id \in {NoId, 1}
  /\ loading = (id # NoId)
  /\ budget = list_InitialFormData
  /\ items = << >>
  /\ extras = << >>
  /\ pricingOptions = InitialPricingOptions
  /\ itemsEffect = FALSE
  /\ uploadedImages = << >>
  /\ imageUrls = << >>
  /\ saves = << >>
  /\ navigated = FALSE
  /\ toasts = NoToasts
  /\ crashed = FALSE
  /\ db_budgets = [b \in {1} |-> list_StoredBudget]
  /\ db_items = list_StoredItems
  /\ db_storage = {}
  /\ db_seq = StoredSeq
  /\ tz = UTC
  /\ today = 0
  /\ dateCall = NoCall

NextVariant ==
  \/ list_loadBudgetOk
  \/ list_loadBudgetFail
  \/ Editing /\ handleAddItem
  \/ Editing /\ \E index \in 1..MaxItems + 1 : handleRemoveItem(index)
  \/ Editing /\ \E index \in 1..MaxItems + 1, in \in list_LineInputs : handleItemChange(index, in[1], in[2])
  \/ list_handleSubmit
  \/ \E s \in 1..MaxSubmits, ok \in BOOLEAN : list_budgetWriteReturns(s, ok)
  \/ \E s \in 1..MaxSubmits, ok \in BOOLEAN : list_deleteReturns(s, ok)
  \/ \E s \in 1..MaxSubmits, ok \in BOOLEAN : list_insertReturns(s, ok)

SpecVariant == InitVariant /\ [][NextVariant]_vars

\* -------------------------------------- totals of the single-list form
\* A new budget is filled in: lines are added, edited (the quantity on the
\* first line only) and removed, a picture
\* is chosen for the first line while it is the only one. In this form
\* uploadedImages holds the picture uploads under way, each with the row it
\* was chosen for and the list its handler saw when the picture was chosen.
TotalLineInputs ==
  ({"unit_price"} \X {50}) \cup ({"margin"} \X {10}) \cup ({"type"} \X {"extra"})

\* pictures chosen so far: under way, stored, or refused
list_Uploads == Len(uploadedImages) + Cardinality(db_storage) + toasts["uploadError"]

\* the file input of a row: handleImageUpload(index, file) up to its await
list_handleImageUpload(index) ==
  /\ list_Ready
  /\ index \in 1..Len(items)
  /\ list_Uploads < MaxUploads
  /\ uploadedImages' = Append(uploadedImages, [index |-> index, items |-> items])
  /\ UNCHANGED <<id, loading, budget, items, extras, pricingOptions, itemsEffect, imageUrls, saveVars, storeVars, uiVars, envVars>>

\* the upload answers: handleItemChange(index, 'image_url', publicUrl) of the
\* render the picture was chosen in, or the error toast; after the page was
\* left the state setters do nothing
list_uploadReturns(u, ok) ==
  /\ u \in 1..Len(uploadedImages)
  /\ uploadedImages' = RemoveAt(uploadedImages, u)
  /\ LET upload == uploadedImages[u]
         newItems == [upload.items EXCEPT ![upload.index] = Spread(@, [image_url |-> "url"])]
     IN IF ok
        THEN /\ db_storage' = db_storage \cup {[file |-> "f1", save |-> Cardinality(db_storage)]}
             /\ items' = IF navigated THEN items ELSE newItems
             /\ budget' = IF navigated THEN budget ELSE calculateTotal(newItems)
             /\ UNCHANGED toasts
        ELSE /\ toasts' = Toast("uploadError")
             /\ UNCHANGED <<items, budget, db_storage>>
  /\ UNCHANGED <<id, loading, extras, pricingOptions, itemsEffect, imageUrls, saveVars, db_budgets, db_items, db_seq, crashed, envVars>>

InitTotal == InitVariant /\ id = NoId

NextTotal ==
  \/ handleAddItem
  \/ \E index \in 1..MaxItems + 1 : handleRemoveItem(index)
  \/ \E index \in 1..MaxItems + 1, in \in TotalLineInputs : handleItemChange(index, in[1], in[2])
  \/ handleItemChange(1, "quantity", 3)
  \/ Len(items) = 1 /\ list_handleImageUpload(1)
  \/ \E u \in 1..MaxUploads, ok \in BOOLEAN : list_uploadReturns(u, ok)

SpecTotal == InitTotal /\ [][NextTotal]_vars

\* ------------------------------------------------------------ properties
AllLines == [k \in 1..(Len(items) + Len(extras)) |->
               IF k <= Len(items) THEN items[k] ELSE extras[k - Len(items)]]

\* the total_amount a save started now would write
SaveTotal == baseCostOf(items)

\* C1: on a new budget every material and every extra line has
\* line_cost = quantity * unit_price, whatever add/update/remove came before
C1_LineCostIsProduct ==
  id = NoId =>
    \A k \in 1..Len(AllLines) :
      AllLines[k].line_cost = AllLines[k].quantity * AllLines[k].unit_price

C1_Witness ==
  /\ id = NoId
  /\ \E k \in 1..Len(items) :
       items[k].quantity = 2 /\ items[k].unit_price = 50 /\ items[k].line_cost = 100
  /\ \E k \in 1..Len(extras) :
       extras[k].quantity = 2 /\ extras[k].unit_price = 999 /\ extras[k].line_cost = 1998

\* C3: once the effect of the last change of the materials has run, every
\* tier has marginAmount = B * margin / 100, totalCost = B + marginAmount and
\* clientPrice = totalCost, B the sum of the materials' line costs
C3_TiersFollowBaseCost ==
  ~itemsEffect =>
    LET B == SumLineCost(items)
    IN \A k \in 1..Len(pricingOptions) :
         /\ pricingOptions[k].marginAmount = B * pricingOptions[k].marginPercentage
         /\ pricingOptions[k].totalCost = B * Hundred + pricingOptions[k].marginAmount
         /\ pricingOptions[k].clientPrice = pricingOptions[k].totalCost

C3_Witness ==
  /\ ~itemsEffect
  /\ id = 1
  /\ Len(items) = 2
  /\ items[1].id = 3
  /\ SumLineCost(items) = 150
  /\ pricingOptions[1].marginPercentage = 25
  /\ pricingOptions[1].clientPrice = 18750
  /\ pricingOptions[3].clientPrice = 18000

C4_ExtraStep ==
  \/ addExtra
  \/ \E index \in 1..MaxExtras + 1, in \in ExtraLineInputs : updateExtra(index, in[1], in[2])
  \/ \E index \in 1..MaxExtras + 1 : removeExtra(index)

\* C4: addExtra, updateExtra and removeExtra change no field of any tier and
\* do not change the total_amount a save would write
C4_ExtrasLeavePricingAlone ==
  [][C4_ExtraStep => (pricingOptions' = pricingOptions /\ SaveTotal' = SaveTotal)]_vars

C4_Witness ==
  /\ id = NoId
  /\ ~itemsEffect
  /\ Len(extras) > 0
  /\ extras[1].line_cost = 999
  /\ SaveTotal = 100
  /\ pricingOptions[1].totalCost = 11000


\* ---- C5
\* the day of the week of a calendar day, 0 = Sunday ... 6 = Saturday
C5_DayOfWeek(day) == (day + 1) % DaysPerWeek
C5_BusinessDays(from, to) ==
  Cardinality({d \in (from + 1)..to : C5_DayOfWeek(d) # 0 /\ C5_DayOfWeek(d) # 6})

\* C5: calculateEstimatedEndDate(start, n), n >= 1, is a day after start that
\* is no Saturday or Sunday, with exactly n non-weekend days in (start, end];
\* 2025-03-07 (day 4) with n = 1 gives 2025-03-10 (day 7)
C5_EndIsNthBusinessDay ==
  dateCall.result # << >> =>
    LET start == dateCall.startDate
        n == dateCall.daysToAdd
        end == dateCall.result[1]
    IN /\ end > start
       /\ C5_DayOfWeek(end) # 0 /\ C5_DayOfWeek(end) # 6
       /\ C5_BusinessDays(start, end) = n
       /\ (start = 4 /\ n = 1) => end = 7

\* ---- C6
C6_Sum == SumLeadTime(items \o extras)

C7_ScenarioLines ==
  /\ id = NoId
  /\ ~itemsEffect
  /\ Len(items) = 1 /\ Len(extras) = 1
  /\ items[1].quantity = 2 /\ items[1].unit_price = 50 /\ items[1].lead_time_days = <<10>>
  /\ extras[1].quantity = 1 /\ extras[1].unit_price = 999 /\ extras[1].lead_time_days = <<0>>

\* C7: with one material (2 x 50, lead time 10) and one extra (1 x 999, lead
\* time 0) on a new form, a save writes total_amount 100, the tiers' client
\* prices are 110, 115 and 120, and setting the start date to a Monday gives
\* the estimated end date 14 calendar days later
C7_EndToEnd ==
  [][(C7_ScenarioLines /\ \E date \in ScenarioStartDates : editStartDate(<<date>>)) =>
       /\ SaveTotal' = 100
       /\ pricingOptions'[1].clientPrice = 110 * Hundred
       /\ pricingOptions'[2].clientPrice = 115 * Hundred
       /\ pricingOptions'[3].clientPrice = 120 * Hundred
       /\ budget'.estimated_end_date = <<budget'.project_start_date[1] + 14>>]_vars

\* ---- C2
C2_BudgetWritten(s) == saves[s].pc = "budget" /\ saves'[s].pc # "budget"
C2_BudgetCalls(save) == SelectSeq(save.calls, LAMBDA c : c.table = "budgets")

\* C2 as claimed: the total_amount handleSubmit writes is the sum of
\* line_cost over the materials in the form at the time of the write
C2_TotalOfCurrentMaterials ==
  [][\A s \in 1..Len(saves) :
       C2_BudgetWritten(s) =>
         saves'[s].calls[Len(saves'[s].calls)].rows[1].total_amount = SumLineCost(items)]_vars

\* C2 as amended: the total_amount handleSubmit writes is the sum of
\* line_cost over the materials the form held when the submit event was
\* dispatched, whatever the extras
C2_TotalOfSubmittedMaterials ==
  \A s \in 1..Len(saves) :
    \A k \in 1..Len(C2_BudgetCalls(saves[s])) :
      C2_BudgetCalls(saves[s])[k].rows[1].total_amount = SumLineCost(saves[s].items)

C2_Witness ==
  \E s \in 1..Len(saves) :
    /\ saves[s].pc = "done"
    /\ Len(saves[s].extras) = 1
    /\ C2_BudgetCalls(saves[s]) # << >>
    /\ C2_BudgetCalls(saves[s])[1].rows[1].total_amount = 107
    /\ SumLineCost(items) = 127

\* ---- C8
C8_Count(seq, x) == Len(SelectSeq(seq, LAMBDA y : y = x))
C8_FailedUploads(save) ==
  Len(SelectSeq(save.calls, LAMBDA c : c.table = "storage" /\ ~c.ok))

C9_LineCalls(save) == SelectSeq(save.calls, LAMBDA c : c.table = "budget_items")

\* C9: on the create path no call is issued without a user; the budget is
\* inserted with user_id the user before any line is written; every line
\* inserted carries the id that insert returned as budget_id, and a save
\* that ends well has inserted every material and extra
C9_CreatePath ==
  \A s \in 1..Len(saves) :
    LET save == saves[s]
    IN save.id = NoId =>
         /\ save.calls # << >> => save.user # NoId
         /\ \A k \in 1..Len(save.calls) :
              /\ save.calls[k].table = "budgets" =>
                   /\ save.calls[k].op = "insert"
                   /\ save.calls[k].rows[1].user_id = save.user
                   /\ \A j \in 1..k : save.calls[j].table # "budget_items"
              /\ save.calls[k].table = "budget_items" =>
                   /\ save.calls[k].op = "insert"
                   /\ \E j \in 1..(k - 1) :
                        save.calls[j].table = "budgets" /\ save.calls[j].ok
                   /\ save.newBudget \in DOMAIN db_budgets
                   /\ db_budgets[save.newBudget].user_id = save.user
                   /\ save.newBudget # 1
                   /\ \A r \in 1..Len(save.calls[k].rows) :
                        save.calls[k].rows[r].budget_id = save.newBudget
         /\ save.pc = "done" =>
              /\ Len(C9_LineCalls(save)) = 1
              /\ Len(C9_LineCalls(save)[1].rows) = Len(save.items) + Len(save.extras)

C9_Witness ==
  \E s \in 1..Len(saves) :
    /\ saves[s].id = NoId
    /\ saves[s].pc = "done"
    /\ saves[s].newBudget = 2
    /\ Len(C9_LineCalls(saves[s])[1].rows) = 3
    /\ \E k \in 1..Len(db_items) : db_items[k].budget_id = 2 /\ db_items[k].type = "extra"

\* ---- C10
C10_Writes(save) == SelectSeq(save.calls, LAMBDA c : c.table # "storage")

\* C10: on the update path the writes of a save are, in this order, the
\* update of the budget record by its id, then one write per material and
\* then one per extra: an update by the line's id when the line has one,
\* otherwise an insert with budget_id the budget's id; a save that ends
\* well has issued all of them
C10_UpdatePath ==
  \A s \in 1..Len(saves) :
    LET save == saves[s]
        writes == C10_Writes(save)
        lines == save.items \o save.extras
    IN save.id # NoId =>
         /\ Len(writes) <= 1 + Len(lines)
         /\ save.pc = "done" => Len(writes) = 1 + Len(lines)
         /\ \A k \in 1..Len(writes) :
              /\ k = 1 => /\ writes[k].table = "budgets"
                          /\ writes[k].op = "update"
                          /\ writes[k].key = save.id
              /\ k > 1 =>
                   /\ writes[k].table = "budget_items"
                   /\ Len(writes[k].rows) = 1
                   /\ IF lines[k - 1].id # NoId
                      THEN /\ writes[k].op = "update"
                           /\ writes[k].key = lines[k - 1].id
                           /\ writes[k].rows[1] = lines[k - 1]
                      ELSE /\ writes[k].op = "insert"
                           /\ writes[k].rows[1].budget_id = save.id
                           /\ writes[k].rows[1].line_cost = lines[k - 1].line_cost
                           /\ writes[k].rows[1].type = lines[k - 1].type

C10_Witness ==
  \E s \in 1..Len(saves) :
    /\ saves[s].id = 1
    /\ saves[s].pc = "done"
    /\ Len(C10_Writes(saves[s])) = 4
    /\ C10_Writes(saves[s])[2].op = "update" /\ C10_Writes(saves[s])[2].key = 1
    /\ C10_Writes(saves[s])[3].op = "insert"
    /\ C10_Writes(saves[s])[4].op = "update" /\ C10_Writes(saves[s])[4].key = 2

\* ---- C11
\* C11: a step of updatePricingOption(index, 'quantity', v) changes the
\* quantity of tier index and nothing else: the other fields of that tier
\* and every field of the other tiers are as before
C11_QuantityIsInformational ==
  [][\A index \in 1..3, in \in TierFieldInputs :
       (in[1] = "quantity" /\ updatePricingOption(index, in[1], in[2])) =>
          pricingOptions' = [pricingOptions EXCEPT ![index].quantity = in[2]]]_vars

C11_Witness ==
  /\ ~itemsEffect
  /\ baseCostOf(items) = 50
  /\ pricingOptions[2].quantity = 5
  /\ pricingOptions[2].marginPercentage = 25
  /\ pricingOptions[2].clientPrice = 6250
  /\ pricingOptions[1].quantity = 1

\* ---- C12
\* C12: recalcOption applied twice with one base cost gives what it gives
\* applied once, for every tier the form holds (up to date or not) and every
\* base cost up to the current one; and once the effect has run, running the
\* recomputation of all tiers again with the same materials changes nothing
C12_RecomputeIdempotent ==
  /\ \A k \in 1..Len(pricingOptions), B \in 0..baseCostOf(items) :
       recalcOption(recalcOption(pricingOptions[k], B), B) = recalcOption(pricingOptions[k], B)
  /\ ~itemsEffect =>
       [k \in 1..Len(pricingOptions) |-> recalcOption(pricingOptions[k], baseCostOf(items))]
         = pricingOptions

C12_Witness ==
  /\ ~itemsEffect
  /\ baseCostOf(items) = 100
  /\ pricingOptions[3].marginPercentage = 25
  /\ pricingOptions[3].marginAmount = 2500
  /\ recalcOption(pricingOptions[3], 100).clientPrice = 12500

\* ---- C13
\* C13: in every reachable state the form holds exactly three tiers, with
\* ids 1, 2, 3 in this order, and so does every save in flight; a form that
\* has just been mounted holds the margins 10, 15, 20 with marginAmount,
\* totalCost and clientPrice 0
C13_ThreeTiers ==
  /\ Len(pricingOptions) = 3
  /\ \A k \in 1..3 : pricingOptions[k].id = k
  /\ \A s \in 1..Len(saves) :
       /\ Len(saves[s].pricingOptions) = 3
       /\ \A k \in 1..3 : saves[s].pricingOptions[k].id = k
  /\ loading =>
       /\ <<pricingOptions[1].marginPercentage, pricingOptions[2].marginPercentage,
            pricingOptions[3].marginPercentage>> = <<10, 15, 20>>
       /\ \A k \in 1..3 : /\ pricingOptions[k].marginAmount = 0
                           /\ pricingOptions[k].totalCost = 0
                           /\ pricingOptions[k].clientPrice = 0

C13_Witness ==
  /\ id = 1
  /\ Len(items) = 2
  /\ pricingOptions[2].marginPercentage = 25
  /\ pricingOptions[3].marginPercentage = 25
  /\ \E s \in 1..Len(saves) : saves[s].pc = "done" /\ saves[s].id = 1

\* ---- C14
\* C14 as claimed: while project_start_date is unset the end date field is
\* empty, and emptying the start date field leaves the form with no start
\* date, an empty end date field and no end date computed from the empty
\* value
C14_NoEndDateWithoutStart ==
  [][/\ budget.project_start_date = << >> => displayedEndDate = << >>
     /\ editStartDate(<< >>) =>
          /\ ~crashed'
          /\ budget'.project_start_date = << >>
          /\ displayedEndDate' = << >>]_vars

\* ---- C15
\* C15: a step of removeItem(index) leaves the materials before index as
\* they were and moves those after it up by one, so that the total_amount a
\* save would write drops by the removed line's cost, and it schedules the
\* recomputation; the recomputation that follows sets every tier from the
\* base cost of the remaining materials alone
C15_RemovedLineLeaves ==
  [][/\ \A index \in 1..Len(items) :
          removeItem(index) =>
            /\ Len(items') = Len(items) - 1
            /\ \A k \in 1..Len(items') :
                 items'[k] = IF k < index THEN items[k] ELSE items[k + 1]
            /\ SaveTotal' = SaveTotal - items[index].line_cost
            /\ itemsEffect'
     /\ (itemsEffect /\ ~itemsEffect') =>
          /\ items' = items
          /\ \A k \in 1..3 :
               /\ pricingOptions'[k].marginAmount = SaveTotal' * pricingOptions'[k].marginPercentage
               /\ pricingOptions'[k].totalCost = SaveTotal' * Hundred + pricingOptions'[k].marginAmount
               /\ pricingOptions'[k].clientPrice = pricingOptions'[k].totalCost]_vars

\* budget 1 was loaded, a material was added and priced, and the stored
\* material before it was removed
C15_Witness ==
  /\ id = 1
  /\ ~itemsEffect
  /\ Len(items) = 1
  /\ items[1].id = NoId
  /\ SaveTotal = 50
  /\ pricingOptions[1].totalCost = 5500

\* ---- C16
\* C16: a step of updatePricingOption(index, 'marginPercentage', m) sets the
\* margin of tier index to m and its derived fields from the base cost of
\* the current materials, and leaves the other two tiers as they were; a
\* step that adds, edits or removes a material schedules the recomputation,
\* and the recomputation sets the derived fields of all three tiers from the
\* base cost, keeping their margins
C16_B == baseCostOf(items)
C16_MaterialStep ==
  \/ addItem
  \/ \E index \in 1..Len(items), in \in TierLineInputs : updateItem(index, in[1], in[2])
  \/ \E index \in 1..Len(items) : removeItem(index)
C16_WhoRecomputes ==
  [][/\ \A index \in 1..3, in \in TierFieldInputs :
          (in[1] = "marginPercentage" /\ updatePricingOption(index, in[1], in[2])) =>
             /\ \A k \in (1..3) \ {index} : pricingOptions'[k] = pricingOptions[k]
             /\ pricingOptions'[index] =
                  [pricingOptions[index] EXCEPT
                     !.marginPercentage = in[2],
                     !.marginAmount = C16_B * in[2],
                     !.totalCost = C16_B * Hundred + C16_B * in[2],
                     !.clientPrice = C16_B * Hundred + C16_B * in[2]]
     /\ C16_MaterialStep => itemsEffect'
     /\ (itemsEffect /\ ~itemsEffect') =>
          \A k \in 1..3 :
            pricingOptions'[k] =
              [pricingOptions[k] EXCEPT
                 !.marginAmount = C16_B * pricingOptions[k].marginPercentage,
                 !.totalCost = C16_B * Hundred + C16_B * pricingOptions[k].marginPercentage,
                 !.clientPrice = C16_B * Hundred + C16_B * pricingOptions[k].marginPercentage]]_vars

C16_Witness ==
  /\ ~itemsEffect
  /\ C16_B = 50
  /\ pricingOptions[1].marginPercentage = 25 /\ pricingOptions[1].totalCost = 6250
  /\ pricingOptions[2].marginPercentage = 15 /\ pricingOptions[2].totalCost = 5750
  /\ pricingOptions[3].marginPercentage = 0 /\ pricingOptions[3].totalCost = 5000

\* ---- C17
\* C17: in an open form a step changes the budget's project_start_date or
\* estimated_end_date only if it is setStartDateToToday or an edit of the
\* start date field, and then the end date is calculateEstimatedEndDate of
\* the new start date and getTotalLeadTime(); each of the two triggers sets
\* both dates so; a step that changes the materials or the extras (their
\* lead times included) leaves both dates as they were
C17_Dates == <<budget.project_start_date, budget.estimated_end_date>>
C17_EndFor(start) == <<calculateEstimatedEndDate(tz, start[1], getTotalLeadTime)>>
C17_OnlyStartTriggersMoveDates ==
  [][/\ C17_Dates' # C17_Dates =>
          /\ setStartDateToToday \/ \E date \in LeadStartDates : editStartDate(date)
          /\ budget'.estimated_end_date = C17_EndFor(budget'.project_start_date)
     /\ (budget' # budget /\ setStartDateToToday) =>
          C17_Dates' = <<(<<today>>), C17_EndFor(<<today>>)>>
     /\ \A date \in LeadStartDates \ {<< >>} :
          (budget' # budget /\ editStartDate(date)) => C17_Dates' = <<date, C17_EndFor(date)>>
     /\ (items' # items \/ extras' # extras) => C17_Dates' = C17_Dates]_vars

\* the lead time was changed after the start date was set: the stored end
\* date is still the one for the old lead time
C17_Witness ==
  /\ budget.project_start_date = <<25>>
  /\ SumLeadTime(items) = 10
  /\ SumLeadTime(extras) = 3
  /\ budget.estimated_end_date = <<calculateEstimatedEndDate(tz, 25, 10)>>
  /\ budget.estimated_end_date # C17_EndFor(<<25>>)

\* ---- C18
\* C18: no save issues a delete; every line of budget 1 that was stored
\* when the form was opened is still stored under budget 1 in every later
\* state, whatever was removed from the form before the save; and a form
\* that has loaded budget 1 again after a successful save holds each of
\* those lines again
C18_Stored(row) ==
  \E k \in 1..Len(db_items) : db_items[k].id = row.id /\ db_items[k].budget_id = row.budget_id
C18_Held(row) ==
  \/ \E k \in 1..Len(items) : items[k].id = row.id
  \/ \E k \in 1..Len(extras) : extras[k].id = row.id
C18_LoadedAgain ==
  /\ \E s \in 1..Len(saves) : saves[s].pc = "done"
  /\ ~navigated /\ ~loading
  /\ id = 1 /\ budget.id = 1
C18_RemovedLinesStayStored ==
  /\ \A s \in 1..Len(saves) : \A k \in 1..Len(saves[s].calls) :
       saves[s].calls[k].op \in {"insert", "update", "upload"}
  /\ \A r \in 1..Len(StoredItems) : C18_Stored(StoredItems[r])
  /\ C18_LoadedAgain => \A r \in 1..Len(StoredItems) : C18_Held(StoredItems[r])

\* both materials and the extra of budget 1 were removed, the save went
\* well, and the budget opened again shows all three
C18_Witness ==
  /\ C18_LoadedAgain
  /\ \E s \in 1..Len(saves) :
       /\ saves[s].pc = "done" /\ saves[s].id = 1
       /\ saves[s].items = << >> /\ saves[s].extras = << >>
  /\ Len(items) = 2 /\ Len(extras) = 1

\* ---- C19
C19_Content(row) == [f \in (DOMAIN row) \ {"id", "budget_id"} |-> row[f]]
C19_Deletes(save) ==
  SelectSeq(save.calls, LAMBDA c : c.table = "budget_items" /\ c.op = "delete")
\* when an update save of the single-list form reports success, the stored
\* lines of the budget are the lines of the list, one for one
C19_ExactlyTheList ==
  \A s \in 1..Len(saves) :
    (saves[s].id # NoId /\ saves[s].pc = "done") =>
       /\ Len(ItemsOfBudget(saves[s].id)) = Len(saves[s].items)
       /\ \A k \in 1..Len(saves[s].items) :
            C19_Content(ItemsOfBudget(saves[s].id)[k]) = C19_Content(saves[s].items[k])
\* no stored line of the budget has the id of a line the save replaced
C19_NewIdentities ==
  \A s \in 1..Len(saves) :
    (saves[s].id # NoId /\ saves[s].pc = "done") =>
       \A d \in 1..Len(C19_Deletes(saves[s])) :
         \A k \in 1..Len(C19_Deletes(saves[s])[d].rows), j \in 1..Len(ItemsOfBudget(saves[s].id)) :
           ItemsOfBudget(saves[s].id)[j].id # C19_Deletes(saves[s])[d].rows[k].id

\* C19 as claimed: an update save of the single-list form issues one delete
\* of the budget's lines before its insert of the list; when it reports
\* success the stored lines of the budget are exactly the lines of the list,
\* and none of them has the identity of a line that was replaced
C19_DeleteThenReinsert ==
  /\ \A s \in 1..Len(saves) :
       (saves[s].id # NoId /\ saves[s].pc \in {"insert", "done"}) =>
          Len(C19_Deletes(saves[s])) = 1
  /\ C19_ExactlyTheList
  /\ C19_NewIdentities

\* rows of budget_items that belong to budget b, identities set aside
C20_RowsOf(b) ==
  LET rows == SelectSeq(db_items, LAMBDA r : r.budget_id = b)
  IN [k \in 1..Len(rows) |-> Spread(rows[k], [id |-> NoId])]

\* the submit event starts the handler even while an earlier invocation is
\* suspended at a backend call
C20_NoInFlightGuard ==
  (InFlight /\ Ready /\ Len(saves) < MaxOverlap) => ENABLED submit(MaxOverlap)

\* on the create path every invocation that got its budget inserted has a
\* budget record of its own, and once it is done its own copies of the lines
C20_OwnRecords ==
  \A s \in 1..Len(saves) :
    (saves[s].id = NoId /\ saves[s].newBudget # NoId) =>
      /\ saves[s].newBudget \in DOMAIN db_budgets
      /\ \A t \in 1..Len(saves) :
           (t # s /\ saves[t].id = NoId) => saves[t].newBudget # saves[s].newBudget
      /\ saves[s].pc = "done" => C20_RowsOf(saves[s].newBudget) = CreateRows(saves[s])

\* C20: the save action has no in-flight guard: while one handleSubmit is
\* suspended at a backend call a second submit of the same form can start and
\* run interleaved with it; on the create path two overlapping submits each
\* insert their own budget record and their own copies of the lines.
C20_OverlappingSubmits == C20_NoInFlightGuard /\ C20_OwnRecords

\* the second invocation of a new budget with lines has finished while the
\* first, started before it, still waits for its insert of the lines
C20_Witness ==
  /\ Len(saves) = 2
  /\ saves[1].id = NoId /\ saves[2].id = NoId
  /\ saves[1].pc = "lines" /\ saves[2].pc = "done"
  /\ saves[1].newBudget # NoId /\ saves[2].newBudget # NoId
  /\ saves[1].newBudget # saves[2].newBudget
  /\ Len(LinesOf(saves[2])) > 0
  /\ C20_RowsOf(saves[2].newBudget) = CreateRows(saves[2])
  /\ C20_RowsOf(saves[1].newBudget) = << >>

\* ---- C21
\* the fields of row that payload sets are the ones payload holds
C21_Shows(row, payload) == \A f \in DOMAIN payload : row[f] = payload[f]

\* what an answered write of a save has left is in the store
C21_Kept(call) ==
  IF call.table = "budgets"
  THEN C21_Shows(db_budgets[call.key], call.rows[1])
  ELSE IF call.op = "update"
  THEN \E k \in 1..Len(db_items) :
         db_items[k].id = call.key /\ C21_Shows(db_items[k], call.rows[1])
  ELSE \E k \in 1..Len(db_items) :
         /\ db_items[k].id > StoredSeq.budget_items
         /\ Spread(db_items[k], [id |-> NoId]) = call.rows[1]

\* no step removes a row or an object from the store, the step in which a
\* save fails writes nothing, and a failed save issues nothing more
C21_NothingUndone ==
  [][/\ DOMAIN db_budgets \subseteq DOMAIN db_budgets'
     /\ Len(db_items') >= Len(db_items)
     /\ \A k \in 1..Len(db_items) : db_items'[k].id = db_items[k].id
     /\ db_storage \subseteq db_storage'
     /\ \A s \in 1..Len(saves) :
          /\ saves[s].pc = "failed" => saves'[s] = saves[s]
          /\ (saves[s].pc # "failed" /\ saves'[s].pc = "failed") =>
               storeVars' = storeVars]_vars

\* a save that failed after its budget insert has left the new budget
\* stored without lines; a save of budget 1 that failed, no other save
\* having run, has left every write it got answered in the store
C21_PartialWritesStay ==
  \A s \in 1..Len(saves) :
    LET save == saves[s]
    IN save.pc = "failed" =>
         /\ (save.id = NoId /\ save.newBudget # NoId) =>
              /\ save.newBudget \in DOMAIN db_budgets
              /\ ItemsOfBudget(save.newBudget) = << >>
         /\ (save.id # NoId /\ Len(saves) = 1) =>
              \A k \in 1..Len(save.calls) :
                (save.calls[k].ok /\ save.calls[k].table # "storage") =>
                  C21_Kept(save.calls[k])

\* C21: a failed save does not roll back: every write of the save that
\* completed before the failing one stays in the store (create path: the
\* new budget record stays, without lines; update path: the budget update
\* and the lines written before the failing one stay), and the save is not
\* retried
C21_NoRollback == C21_NothingUndone /\ [](C21_PartialWritesStay)

\* a save of budget 1 failed at its third line: the budget update, the
\* update of line 1 and the insert of the new material are stored
C21_Witness ==
  /\ Len(saves) = 1
  /\ saves[1].id = 1
  /\ saves[1].pc = "failed"
  /\ Len(C10_Writes(saves[1])) = 4
  /\ ~C10_Writes(saves[1])[4].ok
  /\ C10_Writes(saves[1])[3].op = "insert"
  /\ db_budgets[1].total_amount = 107
  /\ Len(db_items) = 4
  /\ db_items[4].unit_price = 7 /\ db_items[4].budget_id = 1

\* ---- C22
\* the budget write of save s is answered well in this step
C22_Written(s) == saves[s].pc = "budget" /\ saves'[s].pc \notin {"budget", "failed"}

\* the images the store holds for the budget of save s
C22_Stored(s) ==
  IF saves[s].id = NoId THEN << >> ELSE db_budgets[saves[s].id].images

\* the images the store holds after the write of save s
C22_StoredAfter(s) ==
  db_budgets'[IF saves[s].id = NoId THEN saves'[s].newBudget ELSE saves[s].id].images

C22_Uploads(save) == SelectSeq(save.calls, LAMBDA c : c.table = "storage")

\* the objects of the uploads of a save that were answered well, in order
C22_Urls(save) ==
  LET good == SelectSeq(C22_Uploads(save), LAMBDA c : c.ok)
  IN [k \in 1..Len(good) |-> good[k].rows[1]]

\* the k-th upload of a save is the upload of its k-th pending file: no
\* file is uploaded twice by one save
C22_OncePerFile ==
  \A s \in 1..Len(saves) :
    /\ Len(C22_Uploads(saves[s])) <= Len(saves[s].uploadedImages)
    /\ \A k \in 1..Len(C22_Uploads(saves[s])) :
         C22_Uploads(saves[s])[k].rows[1].file = saves[s].uploadedImages[k]

\* C22: the images a save writes are the images the store held
\* for the budget just before, in their order, followed by the objects of
\* the pending files this save uploaded, in upload order; each pending file
\* is uploaded at most once per save
C22_AppendsToStored ==
  [][\A s \in 1..Len(saves) :
       C22_Written(s) =>
         /\ C22_StoredAfter(s) = C22_Stored(s) \o C22_Urls(saves[s])
         /\ C22_OncePerFile]_vars

\* ---- C23
\* a step of one of the backend calls of a save
C23_SaveStep ==
  \E s \in 1..Len(saves) : saves'[s].calls # saves[s].calls

\* C23: the store is written only by steps of handleSubmit, and
\* handleSubmit runs only on an explicit save: adding, editing or removing
\* a line, editing a tier, the start date triggers and selecting or
\* removing an image change in-memory state and nothing else
C23_OnlyExplicitSaveWrites ==
  [][/\ storeVars' # storeVars => C23_SaveStep
     /\ Len(saves') > Len(saves) => (formVars' = formVars /\ imageVars' = imageVars)]_vars

\* ---- C24
\* C24: for a start date and a day count, calculateEstimatedEndDate returns
\* the same date whatever the time zone of the runtime, a change to summer
\* time between start and end included
C24_SameInEveryZone ==
  dateCall.result # << >> =>
    \A zone \in TimeZones :
      dateCall.result[1] =
        calculateEstimatedEndDate(zone, dateCall.startDate, dateCall.daysToAdd)

\* ---- C25
\* getTotalLeadTime() on the lines a save holds
C25_LeadTime(save) ==
  LET total == SumLeadTime(save.items) + SumLeadTime(save.extras)
  IN IF total > 0 THEN total ELSE FallbackLeadTime

\* C25: a budget saved with a start date set is written with the end date
\* the form displays at that moment: calculateEstimatedEndDate of the start
\* date and of getTotalLeadTime() on the lines present at the save
C25_StoredEndIsDisplayedEnd ==
  \A s \in 1..Len(saves) :
    \A k \in 1..Len(saves[s].calls) :
      LET call == saves[s].calls[k]
      IN (call.table = "budgets" /\ saves[s].budget.project_start_date # << >>) =>
           call.rows[1].estimated_end_date =
             <<calculateEstimatedEndDate(tz, saves[s].budget.project_start_date[1],
                                         C25_LeadTime(saves[s]))>>

\* ---- C26
C26_Margins(options) == [k \in 1..Len(options) |-> options[k].marginPercentage]

\* C26: a budget that is loaded and saved again without an edit keeps its
\* persisted pricing_options: the margins persisted are the ones the form
\* shows once it has loaded the budget, and no step of the save changes them
C26_ReloadKeepsTiers ==
  /\ [][C26_Margins(db_budgets'[1].pricing_options)
          = C26_Margins(db_budgets[1].pricing_options)]_vars
  /\ []((Ready /\ saves = << >>) =>
          C26_Margins(pricingOptions) = C26_Margins(db_budgets[1].pricing_options))

\* ---- C27
\* how many previews show persisted images
C27_Persisted == Len(imageUrls) - Len(uploadedImages)

\* the previews are persisted images of the budget followed by one preview
\* per pending file, in the order of uploadedImages
C27_PreviewsFollowPending ==
  /\ C27_Persisted >= 0
  /\ \A k \in 1..Len(imageUrls) :
       IF k <= C27_Persisted
       THEN \E j \in 1..Len(budget.images) : imageUrls[k] = budget.images[j]
       ELSE imageUrls[k] = Preview(uploadedImages[k - C27_Persisted])

\* removing the preview at position index removes the pending file that
\* preview shows, and no pending file when it shows a persisted image
C27_RemovesTheFileShown ==
  [][\A index \in 1..MaxPreviews :
       removeImage(index) =>
         uploadedImages' =
           IF index > C27_Persisted
           THEN RemoveAt(uploadedImages, index - C27_Persisted)
           ELSE uploadedImages]_vars

\* C27: in every state imageUrls is the persisted images followed by one
\* preview per pending file, in the order of uploadedImages; removing the
\* preview at position i removes from the pending files exactly the file
\* that preview shows, and none when the preview shows a persisted image
C27_PreviewsMatchPending == [](C27_PreviewsFollowPending) /\ C27_RemovesTheFileShown

C29_Pos(row) == CHOOSE k \in 1..Len(db_items) : db_items[k] = row

\* the lines of s are stored lines of the open budget, of the given type,
\* each at most once and in the order the store returns them
C29_Holds(s, type) ==
  /\ \A k \in 1..Len(s) :
       /\ s[k].type = type
       /\ s[k].budget_id = id
       /\ \E j \in 1..Len(db_items) : db_items[j] = s[k]
  /\ \A a, b \in 1..Len(s) : a < b => C29_Pos(s[a]) < C29_Pos(s[b])

\* how many lines of s and t together equal the stored line
C29_Landings(row, s, t) ==
  Cardinality({k \in 1..Len(s) : s[k] = row}) + Cardinality({k \in 1..Len(t) : t[k] = row})

\* C29: the step that ends the loading state of an edit form without a load
\* error is a successful load: after it the materials collection holds
\* exactly the stored lines of the budget of type 'material' and the extras
\* collection exactly those of type 'extra', each in the store's order, every
\* stored line of the budget is in exactly one of the two, and the budget
\* record is the stored one. A step that reports a load error leaves both
\* collections and the budget record as they were and ends the loading state.
C29_LoadSplitsLines ==
  [][/\ (loading /\ ~loading' /\ id # NoId /\ toasts'["loadError"] = toasts["loadError"]) =>
          /\ budget' = db_budgets[id]
          /\ C29_Holds(items, "material")'
          /\ C29_Holds(extras, "extra")'
          /\ \A j \in 1..Len(db_items) :
               db_items[j].budget_id = id => C29_Landings(db_items[j], items', extras') = 1
     /\ toasts'["loadError"] # toasts["loadError"] =>
          /\ loading
          /\ ~loading'
          /\ items' = items
          /\ extras' = extras
          /\ budget' = budget]_vars

\* a budget whose stored lines alternate material, extra, material is open
C29_Witness ==
  /\ id = 1
  /\ ~loading
  /\ budget = db_budgets[1]
  /\ Len(items) = 2
  /\ Len(extras) = 1
  /\ C29_Pos(items[1]) < C29_Pos(extras[1])
  /\ C29_Pos(extras[1]) < C29_Pos(items[2])

\* ------------------------------------------------------------------- C30
\* total_price of the first n lines of s, added up
RECURSIVE C30_SumTo(_, _)
C30_SumTo(s, n) == IF n = 0 THEN 0 ELSE C30_SumTo(s, n - 1) + s[n].total_price

\* C30: in the single-list form of a new budget, after every handleAddItem,
\* handleItemChange and handleRemoveItem the form's total_amount is the sum of
\* total_price over all lines of the list, 'extra' lines included, and every
\* line's total_price is quantity * unit_price * (1 + margin / 100)
\* (in hundredths: quantity * unit_price * (100 + margin))
C30_TotalIsSumOfLines ==
  id = NoId =>
    /\ budget.total_amount = C30_SumTo(items, Len(items))
    /\ \A k \in 1..Len(items) :
         items[k].total_price = items[k].quantity * items[k].unit_price * (Hundred + items[k].margin)

\* a list with a priced 'extra' line
\* with a margin next to a priced 'material' line
C30_Witness ==
  /\ id = NoId
  /\ Len(items) = 2
  /\ \E k \in 1..2 : items[k].type = "extra" /\ items[k].margin = 10 /\ items[k].total_price = 5500
  /\ \E k \in 1..2 : items[k].type = "material" /\ items[k].quantity = 3 /\ items[k].total_price = 15000
  /\ budget.total_amount = 20500

====
